---- MODULE Spec2Model ----
(***************************************************************************)
(* Transport maps of src/cpbd/high_order.py: the closed-form second-order  *)
(* tensor t_nnn, the edge maps fringe_ent / fringe_ext and the symplectic  *)
(* stepper sym_map.                                                        *)
(*                                                                         *)
(* Numbers.  A float is modelled by an exact rational <<n, d>> in lowest   *)
(* terms with d > 0.  <<0, 0>> stands for a non-finite float (inf or nan): *)
(* it is what a numpy division by zero returns and it is absorbing under   *)
(* the arithmetic used here (no code path divides by a non-finite value).  *)
(* Rounding, overflow and underflow of binary64 are not modelled.          *)
(*                                                                         *)
(* cos and sin.  cos(k*L) and sin(k*L)/k with k = sqrt(k2 + 0j) are the    *)
(* entire functions C(u) = 1 - u/2! + u^2/4! - ... and                     *)
(* L*S(u), S(u) = 1 - u/3! + u^2/5! - ..., of u = k2*L^2 (this is how the  *)
(* complex square root folds the hyperbolic case into the same formula).   *)
(* The model evaluates their Maclaurin polynomials up to u^2; they are     *)
(* exact at u = 0.  An angle is q + n*pi/2 with q rational and n an        *)
(* integer, written <<q, n>>; its sine and cosine reduce by quadrant to    *)
(* those of q (polynomials q - q^3/6 and 1 - q^2/2), so that cos(pi/2) = 0 *)
(* and tan(0) = 0 exactly.                                                 *)
(***************************************************************************)
EXTENDS Integers, Sequences, FiniteSets, TLC

----------------------------------------------------------------------------
(* Exact rational arithmetic with a non-finite element.                    *)

Abs(a) == IF a < 0 THEN -a ELSE a

RECURSIVE Gcd(_, _)
Gcd(a, b) == IF b = 0 THEN a ELSE Gcd(b, a % b)

NonFinite == <<0, 0>>

IsFinite(a) == a[2] # 0

Rat(n, d) ==
    IF d = 0 THEN NonFinite
    ELSE LET g == Gcd(Abs(n), Abs(d))
             s == IF d < 0 THEN -1 ELSE 1
         IN  <<s * (n \div g), s * (d \div g)>>

Num(n) == <<n, 1>>

Zero == Num(0)

One == Num(1)

Neg(a) == <<-a[1], a[2]>>

Add(a, b) ==
    IF a[2] = 0 \/ b[2] = 0 THEN NonFinite
    ELSE LET g == Gcd(a[2], b[2])
         IN  Rat(a[1] * (b[2] \div g) + b[1] * (a[2] \div g), (a[2] \div g) * b[2])

Sub(a, b) == Add(a, Neg(b))

Mul(a, b) ==
    IF a[2] = 0 \/ b[2] = 0 THEN NonFinite
    ELSE LET g1 == Gcd(Abs(a[1]), b[2])
             g2 == Gcd(Abs(b[1]), a[2])
         IN  <<(a[1] \div g1) * (b[1] \div g2), (a[2] \div g2) * (b[2] \div g1)>>

\* x/y on numpy floats: a zero divisor gives inf or nan and no exception.
Div(a, b) ==
    IF a[2] = 0 \/ b[2] = 0 \/ b[1] = 0 THEN NonFinite
    ELSE Mul(a, IF b[1] < 0 THEN <<-b[2], -b[1]>> ELSE <<b[2], b[1]>>)

IsZero(a) == a[2] # 0 /\ a[1] = 0

Less(a, b) == a[1] * b[2] < b[1] * a[2]

\* cos(sqrt(u)) and sin(sqrt(u))/sqrt(u), Maclaurin polynomials in u.
CosSeries(u) ==
    Add(Sub(One, Div(u, Num(2))), Div(Mul(u, u), Num(24)))

SincSeries(u) ==
    Add(Sub(One, Div(u, Num(6))), Div(Mul(u, u), Num(120)))

a ++ b == Add(a, b)

a -- b == Sub(a, b)

a ** b == Mul(a, b)

a // b == Div(a, b)

----------------------------------------------------------------------------
(* t_nnn(L, h, k1, k2): the second-order tensor of a combined-function     *)
(* segment.                                                                *)

Idx == 0 .. 5

\* The element of a one-element set: Only({e(x) : x \in {v}}) is e(v) with v
\* evaluated once.
Only(S) == CHOOSE x \in S : TRUE

\* kx = sqrt(kx2 + 0.j), ky = sqrt(ky2 + 0.j): zero exactly when the square is.
KxNonZero(kx2) == ~IsZero(kx2)

KyNonZero(ky2) == ~IsZero(ky2)

\* Fault model: the branches of the if / else exchanged.
KxForm_inverted(kx2) == IF KxNonZero(kx2) THEN "poly" ELSE "kx"

\* The if / else of the horizontal integrals I116 .. I56.
KxForm(kx2) == IF KxNonZero(kx2) THEN "kx" ELSE "poly"

\* The if / elif / else chain of the cross-plane integrals I144 .. I423.
CrossForm(kx2, ky2) ==
    IF KxNonZero(kx2) /\ KyNonZero(ky2) THEN "kxky"
    ELSE IF KxNonZero(kx2) /\ ~KyNonZero(ky2) THEN "kx"
    ELSE "poly"

\* Fault model: the elif branch (kx = 0, ky = 0) missing from the chain.
TailForm_no_elif(kx2, ky2) ==
    IF ~KxNonZero(kx2) /\ KyNonZero(ky2) THEN "ky" ELSE "else"

\* The if / elif / else chain of I336 .. I544.
TailForm(kx2, ky2) ==
    IF ~KxNonZero(kx2) /\ KyNonZero(ky2) THEN "ky"
    ELSE IF ~KxNonZero(kx2) /\ ~KyNonZero(ky2) THEN "poly"
    ELSE "else"

\* Lines 91-134: basis functions and the integrals common to all cases.
t_nnn_basis(L, h, k1) ==
    LET h2   == h ** h
        h3   == h2 ** h
        kx2  == k1 ++ (h ** h)
        ky2  == Neg(k1)
        kx4  == kx2 ** kx2
        ky4  == ky2 ** ky2
        L2   == L ** L
        L3   == L2 ** L
        L4   == L3 ** L
        L5   == L4 ** L
        cx   == CosSeries(kx2 ** L2)
        sx   == IF KxNonZero(kx2) THEN L ** SincSeries(kx2 ** L2) ELSE L
        cy   == CosSeries(ky2 ** L2)
        sy   == IF KyNonZero(ky2) THEN L ** SincSeries(ky2 ** L2) ELSE L
        sx2  == sx ** sx
        sy2  == sy ** sy
        dx   == IF KxNonZero(kx2) THEN (h // kx2) ** (One -- cx)
                                   ELSE ((L ** L) ** h) // Num(2)
        dx_h == IF KxNonZero(kx2) THEN (One -- cx) // kx2
                                   ELSE (L ** L) // Num(2)
        denom == kx2 -- (Num(4) ** ky2)
        I111 == Rat(1, 3) ** (sx2 ++ dx_h)
        I122 == (dx_h ** dx_h) // Num(3)
        I112 == (sx ** dx_h) // Num(3)
        I11  == (L ** sx) // Num(2)
        I10  == dx_h
        I33  == (L ** sy) // Num(2)
        I34  == IF KyNonZero(ky2) THEN (sy -- (L ** cy)) // (Num(2) ** ky2)
                                   ELSE L3 // Num(6)
        I211 == (sx // Num(3)) ** (One ++ (Num(2) ** cx))
        I222 == ((Num(2) ** dx_h) ** sx) // Num(3)
        I212 == Rat(1, 3) ** ((Num(2) ** sx2) -- dx_h)
        I21  == Rat(1, 2) ** ((L ** cx) ++ sx)
        I22  == I11
        I20  == sx
        I43  == Rat(1, 2) ** ((L ** cy) ++ sy)
        I44  == I33
        I512 == ((h ** dx_h) ** dx_h) // Num(6)
        I51  == (L ** dx) // Num(2)
    IN  [L |-> L, h |-> h, h2 |-> h2, h3 |-> h3, kx2 |-> kx2, ky2 |-> ky2,
         kx4 |-> kx4, ky4 |-> ky4, L2 |-> L2, L3 |-> L3, L4 |-> L4, L5 |-> L5,
         cx |-> cx, sx |-> sx, cy |-> cy, sy |-> sy, sx2 |-> sx2, sy2 |-> sy2,
         dx |-> dx, dx_h |-> dx_h, denom |-> denom,
         I111 |-> I111, I122 |-> I122, I112 |-> I112, I11 |-> I11, I10 |-> I10,
         I33 |-> I33, I34 |-> I34, I211 |-> I211, I222 |-> I222, I212 |-> I212,
         I21 |-> I21, I22 |-> I22, I20 |-> I20, I43 |-> I43, I44 |-> I44,
         I512 |-> I512, I51 |-> I51]

\* Lines 136-175: the horizontal integrals, one form for kx != 0 and the
\* polynomial form for kx = 0.
t_nnn_kx(b) ==
    LET L == b.L
        h == b.h
        h2 == b.h2
        kx2 == b.kx2
        kx4 == b.kx4
        cx == b.cx
        sx == b.sx
        dx == b.dx
        dx_h == b.dx_h
    IN  IF KxForm(kx2) = "kx" THEN
          LET I116 == (h // kx2) ** (b.I11 -- b.I111)
              I12  == (Rat(1, 2) // kx2) ** (sx -- (L ** cx))
              I126 == (h // kx2) ** (I12 -- b.I112)
              I16  == (h // kx2) ** (dx_h -- ((L ** sx) // Num(2)))
              I166 == (h2 // kx4) ** ((b.I10 -- (Num(2) ** b.I11)) ++ b.I111)
              I216 == (h // kx2) ** (b.I21 -- b.I211)
              I226 == (h // kx2) ** (b.I22 -- b.I212)
              I26  == (h // (Num(2) ** kx2)) ** (sx -- (L ** cx))
              I266 == (h2 // kx4) ** ((b.I20 -- (Num(2) ** b.I21)) ++ b.I211)
              I511 == (h ** (((Num(3) ** L) -- (Num(2) ** sx)) -- (sx ** cx)))
                          // (Num(6) ** kx2)
              I522 == (h ** (((Num(3) ** L) -- (Num(4) ** sx)) ++ (sx ** cx)))
                          // (Num(6) ** kx4)
              I516 == (h // kx2) ** (b.I51 -- I511)
              I52  == ((Num(2) ** dx) -- ((h ** L) ** sx)) // (Num(2) ** kx2)
              I526 == (h // kx2) ** (I52 -- b.I512)
              I50  == (h ** (L -- sx)) // kx2
              I566 == (h2 // kx4) ** ((I50 -- (Num(2) ** b.I51)) ++ I511)
              I56  == (h2 ** ((L ** (One ++ cx)) -- (Num(2) ** sx)))
                          // (Num(2) ** kx4)
          IN  [I116 |-> I116, I12 |-> I12, I126 |-> I126, I16 |-> I16,
               I166 |-> I166, I216 |-> I216, I226 |-> I226, I26 |-> I26,
               I266 |-> I266, I511 |-> I511, I522 |-> I522, I516 |-> I516,
               I52 |-> I52, I526 |-> I526, I50 |-> I50, I566 |-> I566,
               I56 |-> I56,
               divisors |-> {<<"kx2", kx2>>, <<"kx4", kx4>>}]
        ELSE
          [I116 |-> (h ** b.L4) // Num(24),
           I12  |-> b.L3 // Num(6),
           I126 |-> (h ** b.L5) // Num(40),
           I16  |-> (h ** b.L4) // Num(24),
           I166 |-> ((h2 ** b.L5) ** L) // Num(120),
           I216 |-> (h ** b.L3) // Num(6),
           I226 |-> (h ** b.L4) // Num(8),
           I26  |-> (h ** b.L3) // Num(6),
           I266 |-> (h2 ** b.L5) // Num(20),
           I511 |-> (h ** b.L3) // Num(6),
           I522 |-> (h ** b.L5) // Num(60),
           I516 |-> (h2 ** b.L5) // Num(120),
           I52  |-> (h ** b.L4) // Num(24),
           I526 |-> ((h2 ** b.L5) ** L) // Num(240),
           I50  |-> (h ** b.L3) // Num(6),
           I566 |-> (((h2 ** h) ** b.L5) ** b.L2) // Num(840),
           I56  |-> (h2 ** b.L5) // Num(120),
           divisors |-> {}]

\* Lines 177-225: the cross-plane integrals and their derivatives.
t_nnn_cross(b) ==
    LET L == b.L
        kx2 == b.kx2
        ky2 == b.ky2
        kx4 == b.kx4
        cx == b.cx
        sx == b.sx
        cy == b.cy
        sy == b.sy
        sy2 == b.sy2
        dx_h == b.dx_h
        denom == b.denom
        form == CrossForm(kx2, ky2)
    IN  IF form = "kxky" THEN
          [form |-> form,
           I144 |-> (sy2 -- (Num(2) ** dx_h)) // denom,
           I133 |-> dx_h -- ((ky2 ** (sy2 -- (Num(2) ** dx_h))) // denom),
           I134 |-> ((sy ** cy) -- sx) // denom,
           I313 |-> (((kx2 ** cy) ** dx_h) -- (((Num(2) ** ky2) ** sx) ** sy)) // denom,
           I324 |-> (((Num(2) ** cy) ** dx_h) -- (sx ** sy)) // denom,
           I314 |-> (((Num(2) ** cy) ** sx) -- ((One ++ cx) ** sy)) // denom,
           I323 |-> ((sy -- (cy ** sx)) -- (((Num(2) ** ky2) ** sy) ** dx_h)) // denom,
           I244 |-> (Num(2) ** ((cy ** sy) -- sx)) // denom,
           I233 |-> sx -- (((Num(2) ** ky2) ** ((cy ** sy) -- sx)) // denom),
           I234 |-> ((kx2 ** dx_h) -- ((Num(2) ** ky2) ** sy2)) // denom,
           I413 |-> ((((kx2 -- (Num(2) ** ky2)) ** cy) ** sx)
                        -- ((ky2 ** sy) ** (One ++ cx))) // denom,
           I424 |-> (((cy ** sx) -- (cx ** sy))
                        -- (((Num(2) ** ky2) ** sy) ** dx_h)) // denom,
           I414 |-> ((((kx2 -- (Num(2) ** ky2)) ** sx) ** sy)
                        -- ((One -- cx) ** cy)) // denom,
           I423 |-> (((cy ** dx_h) ** (kx2 -- (Num(2) ** ky2)))
                        -- ((ky2 ** sx) ** sy)) // denom,
           divisors |-> {<<"denom", denom>>}]
        ELSE IF form = "kx" THEN
          [form |-> form,
           I323 |-> (L -- sx) // kx2,
           I324 |-> ((Num(2) ** (One -- cx)) // kx4) -- ((L ** sx) // kx2),
           I314 |-> ((Num(2) ** sx) -- (L ** (One ++ cx))) // kx2,
           I313 |-> (One -- cx) // kx2,
           I144 |-> ((Num(-2) ++ (kx2 ** b.L2)) ++ (Num(2) ** cx)) // kx4,
           I133 |-> (One -- cx) // kx2,
           I134 |-> (L -- sx) // kx2,
           I423 |-> (One -- cx) // kx2,
           I424 |-> (sx -- (L ** cx)) // kx2,
           I414 |-> ((cx -- One) // kx2) ++ (L ** sx),
           I413 |-> sx,
           I244 |-> ((Num(2) ** L) -- (Num(2) ** sx)) // kx2,
           I233 |-> sx,
           I234 |-> (One -- cx) // kx2,
           divisors |-> {<<"kx2", kx2>>, <<"kx4", kx4>>}]
        ELSE
          [form |-> form,
           I144 |-> b.L4 // Num(12),
           I133 |-> b.L2 // Num(2),
           I134 |-> b.L3 // Num(6),
           I313 |-> b.L2 // Num(2),
           I324 |-> b.L4 // Num(12),
           I314 |-> b.L3 // Num(6),
           I323 |-> b.L3 // Num(6),
           I244 |-> b.L3 // Num(3),
           I233 |-> L,
           I234 |-> b.L2 // Num(2),
           I413 |-> L,
           I424 |-> b.L3 // Num(3),
           I414 |-> b.L2 // Num(2),
           I423 |-> b.L2 // Num(2),
           divisors |-> {}]

\* Lines 228-256: I336 .. I446 and the path-length integrals I533, I534, I544.
t_nnn_tail(b, c) ==
    LET L == b.L
        h == b.h
        kx2 == b.kx2
        ky2 == b.ky2
        ky4 == b.ky4
        cy == b.cy
        sy == b.sy
        sy2 == b.sy2
        L2 == b.L2
        L3 == b.L3
        denom == b.denom
        form == TailForm(kx2, ky2)
    IN  IF form = "ky" THEN
          LET I346 == (h ** ((((Num(3) -- ((Num(2) ** ky2) ** L2)) ** L) ** cy)
                              ++ ((Num(3) ** ((ky2 ** L2) -- One)) ** sy)))
                          // (Num(24) ** ky4)
          IN  [form |-> form,
               I336 |-> ((h ** L) ** (((Num(3) ** L) ** cy)
                              ++ ((((Num(2) ** ky2) ** L2) -- Num(3)) ** sy)))
                          // (Num(24) ** ky2),
               I346 |-> I346,
               I436 |-> I346,
               I446 |-> ((h ** L) ** (((Num(-3) ** L) ** cy)
                              ++ ((Num(3) ++ ((Num(2) ** ky2) ** L2)) ** sy)))
                          // (Num(24) ** ky2),
               I533 |-> (h ** (((Num(3) ** L) ++ ((Num(2) ** ky2) ** L3))
                              -- ((Num(3) ** sy) ** cy)))
                          // (Num(24) ** ky2),
               I534 |-> (h ** (L2 -- sy2)) // (Num(8) ** ky2),
               I544 |-> (h ** (((Num(-3) ** L) ++ ((Num(2) ** ky2) ** L3))
                              ++ ((Num(3) ** sy) ** cy)))
                          // (Num(24) ** ky4),
               divisors |-> {<<"ky2", ky2>>, <<"ky4", ky4>>}]
        ELSE IF form = "poly" THEN
          [form |-> form,
           I336 |-> (h ** b.L4) // Num(24),
           I346 |-> (h ** b.L5) // Num(40),
           I436 |-> (h ** L3) // Num(6),
           I446 |-> (h ** b.L4) // Num(8),
           I533 |-> (h ** L3) // Num(6),
           I534 |-> (h ** b.L4) // Num(24),
           I544 |-> (h ** b.L5) // Num(60),
           divisors |-> {}]
        ELSE
          [form |-> form,
           I336 |-> (h // kx2) ** (b.I33 -- c.I313),
           I346 |-> (h // kx2) ** (b.I34 -- c.I314),
           I436 |-> (h // kx2) ** (b.I43 -- c.I413),
           I446 |-> (h // kx2) ** (b.I44 -- c.I414),
           I533 |-> (h ** (((denom ** L)
                              -- ((Num(2) ** (denom ++ (Num(2) ** ky2))) ** b.sx))
                              ++ ((kx2 ** cy) ** sy)))
                        // ((Num(2) ** denom) ** kx2),
           I534 |-> ((h ** sy2) -- (Num(2) ** b.dx)) // (Num(2) ** denom),
           I544 |-> (sy2 -- (Num(2) ** b.dx_h)) // denom,
           divisors |-> {<<"kx2", kx2>>, <<"denom", denom>>,
                         <<"2*denom*kx2", (Num(2) ** denom) ** kx2>>}]

\* The divisors other than numeric literals that one call evaluates, each
\* with its value: those of the guarded expressions sx, sy, dx, dx_h, I34,
\* i566 and those of the three case blocks.
t_nnn_divisors(b, a, c, d) ==
    (IF KxNonZero(b.kx2) THEN {<<"kx", b.kx2>>, <<"kx2", b.kx2>>,
                               <<"4*kx2", Num(4) ** b.kx2>>} ELSE {})
    \cup (IF KyNonZero(b.ky2) THEN {<<"ky", b.ky2>>,
                                    <<"2*ky2", Num(2) ** b.ky2>>} ELSE {})
    \cup a.divisors \cup c.divisors \cup d.divisors

\* Lines 258-296 and 349-371: the second-order terms built from the
\* integrals (b: basis, a: horizontal, c: cross-plane, d: tail block).
t_nnn_terms(k2, b, a, c, d) ==
    LET L == b.L
        h == b.h
        h2 == b.h2
        h3 == b.h3
        kx2 == b.kx2
        ky2 == b.ky2
        kx4 == b.kx4
        cx == b.cx
        sx == b.sx
        cy == b.cy
        sy == b.sy
        sx2 == b.sx2
        sy2 == b.sy2
        dx == b.dx
        K2 == k2 // Num(2)
        coef1 == (((Num(2) ** ky2) ** h) -- h3) -- K2
        coef3 == (Num(2) ** h2) -- ky2
        coef2 == Num(2) ** (K2 -- (ky2 ** h))
        t511 == (coef1 ** a.I511) ++ (((h ** kx4) ** a.I522) // Num(2))
        t512 == ((Num(2) ** coef1) ** b.I512) -- ((h ** kx2) ** b.I512)
        t516 == (((Num(2) ** coef1) ** a.I516) ++ (coef3 ** b.I51))
                    -- ((h2 ** kx2) ** a.I522)
        t522 == (coef1 ** a.I522) ++ ((Rat(1, 2) ** h) ** a.I511)
        t526 == (((Num(2) ** coef1) ** a.I526) ++ (coef3 ** a.I52))
                    ++ (h2 ** b.I512)
        t566 == (((coef1 ** a.I566) ++ (coef3 ** a.I56))
                    ++ ((Rat(1, 2) ** h3) ** a.I522)) -- (h ** a.I50)
        t533 == (K2 ** d.I533) -- (((ky2 ** h) ** a.I50) // Num(2))
        t534 == (Num(2) ** K2) ** d.I534
        t544 == (K2 ** d.I544) -- ((h ** a.I50) // Num(2))
        i566 == IF KxNonZero(kx2)
                THEN (h2 ** (L -- (sx ** cx))) // (Num(4) ** kx2)
                ELSE (h2 ** b.L3) // Num(6)
    IN  [cx |-> cx, sx |-> sx, cy |-> cy, sy |-> sy, dx |-> dx, h |-> h,
         kx2 |-> kx2, ky2 |-> ky2,
         t111 |-> (coef1 ** b.I111) ++ (((h ** kx4) ** b.I122) // Num(2)),
         t112 |-> ((Num(2) ** coef1) ** b.I112) -- ((h ** kx2) ** b.I112),
         t116 |-> (((Num(2) ** coef1) ** a.I116) ++ (coef3 ** b.I11))
                      -- ((h2 ** kx2) ** b.I122),
         t122 |-> (coef1 ** b.I122) ++ ((Rat(1, 2) ** h) ** b.I111),
         t126 |-> (((Num(2) ** coef1) ** a.I126) ++ (coef3 ** a.I12))
                      ++ (h2 ** b.I112),
         t166 |-> (((coef1 ** a.I166) ++ (coef3 ** a.I16))
                      ++ ((Rat(1, 2) ** h3) ** b.I122)) -- (h ** b.I10),
         t133 |-> (K2 ** c.I133) -- (((ky2 ** h) ** b.I10) // Num(2)),
         t134 |-> (Num(2) ** K2) ** c.I134,
         t144 |-> (K2 ** c.I144) -- ((h ** b.I10) // Num(2)),
         t211 |-> (coef1 ** b.I211) ++ (((h ** kx4) ** b.I222) // Num(2)),
         t212 |-> ((Num(2) ** coef1) ** b.I212) -- ((h ** kx2) ** b.I212),
         t216 |-> (((Num(2) ** coef1) ** a.I216) ++ (coef3 ** b.I21))
                      -- ((h2 ** kx2) ** b.I222),
         t222 |-> (coef1 ** b.I222) ++ ((Rat(1, 2) ** h) ** b.I211),
         t226 |-> (((Num(2) ** coef1) ** a.I226) ++ (coef3 ** b.I22))
                      ++ (h2 ** b.I212),
         t266 |-> (((coef1 ** a.I266) ++ (coef3 ** a.I26))
                      ++ ((Rat(1, 2) ** h3) ** b.I222)) -- (h ** b.I20),
         t233 |-> (K2 ** c.I233) -- (((ky2 ** h) ** b.I20) // Num(2)),
         t234 |-> (Num(2) ** K2) ** c.I234,
         t244 |-> (K2 ** c.I244) -- ((h ** b.I20) // Num(2)),
         t313 |-> (coef2 ** c.I313) ++ (((h ** kx2) ** ky2) ** c.I324),
         t314 |-> (coef2 ** c.I314) -- ((h ** kx2) ** c.I323),
         t323 |-> (coef2 ** c.I323) -- ((h ** ky2) ** c.I314),
         t324 |-> (coef2 ** c.I324) ++ (h ** c.I313),
         t336 |-> ((coef2 ** d.I336) ++ (ky2 ** b.I33))
                      -- ((h2 ** ky2) ** c.I324),
         t346 |-> ((coef2 ** d.I346) ++ (h2 ** c.I323)) ++ (ky2 ** b.I34),
         t413 |-> (coef2 ** c.I413) ++ (((h ** kx2) ** ky2) ** c.I424),
         t414 |-> (coef2 ** c.I414) -- ((h ** kx2) ** c.I423),
         t423 |-> (coef2 ** c.I423) -- ((h ** ky2) ** c.I414),
         t424 |-> (coef2 ** c.I424) ++ (h ** c.I413),
         t436 |-> ((coef2 ** d.I436) -- ((h2 ** ky2) ** c.I424))
                      ++ (ky2 ** b.I43),
         t446 |-> ((coef2 ** d.I446) ++ (h2 ** c.I423)) ++ (ky2 ** b.I44),
         T511 |-> t511 ++ ((Rat(1, 4) ** kx2) ** (L -- (cx ** sx))),
         T512 |-> (t512 -- ((Rat(1, 2) ** kx2) ** sx2)) ++ (h ** dx),
         T516 |-> t516 ++ ((h ** ((sx ** cx) -- L)) // Num(2)),
         T522 |-> t522 ++ ((L ++ (sx ** cx)) // Num(4)),
         T526 |-> t526 ++ ((h ** sx2) // Num(2)),
         T566 |-> t566 ++ i566,
         T533 |-> t533 ++ ((Rat(1, 4) ** ky2) ** (L -- (sy ** cy))),
         T534 |-> t534 -- ((Rat(1, 2) ** ky2) ** sy2),
         T544 |-> t544 ++ ((L ++ (sy ** cy)) // Num(4))]

\* Lines 299-337 and 373-381: T = zeros((6,6,6)) and the entries written.
t_nnn_entries(v) ==
    LET h == v.h
        cx == v.cx
        sx == v.sx
        cy == v.cy
        sy == v.sy
        dx == v.dx
        cx_1 == Neg(v.kx2 ** sx)
        sx_1 == cx
        cy_1 == Neg(v.ky2 ** sy)
        sy_1 == cy
        dx_1 == h ** sx
    IN  (<<0, 0, 0>> :> v.t111)
     @@ (<<0, 0, 1>> :> (v.t112 ++ (h ** sx)))
     @@ (<<0, 0, 5>> :> v.t116)
     @@ (<<0, 1, 1>> :> v.t122)
     @@ (<<0, 1, 5>> :> v.t126)
     @@ (<<0, 5, 5>> :> v.t166)
     @@ (<<0, 2, 2>> :> v.t133)
     @@ (<<0, 2, 3>> :> v.t134)
     @@ (<<0, 3, 3>> :> v.t144)
     @@ (<<1, 0, 0>> :> (v.t211 -- ((h ** cx) ** cx_1)))
     @@ (<<1, 0, 1>> :> ((v.t212 ++ (h ** sx_1))
                            -- (h ** ((sx ** cx_1) ++ (cx ** sx_1)))))
     @@ (<<1, 0, 5>> :> (v.t216 -- (h ** ((dx ** cx_1) ++ (cx ** dx_1)))))
     @@ (<<1, 1, 1>> :> (v.t222 -- ((h ** sx) ** sx_1)))
     @@ (<<1, 1, 5>> :> (v.t226 -- (h ** ((sx ** dx_1) ++ (dx ** sx_1)))))
     @@ (<<1, 5, 5>> :> (v.t266 -- ((dx ** h) ** dx_1)))
     @@ (<<1, 2, 2>> :> v.t233)
     @@ (<<1, 2, 3>> :> v.t234)
     @@ (<<1, 3, 3>> :> v.t244)
     @@ (<<2, 0, 2>> :> v.t313)
     @@ (<<2, 0, 3>> :> (v.t314 ++ (h ** sy)))
     @@ (<<2, 1, 2>> :> v.t323)
     @@ (<<2, 1, 3>> :> v.t324)
     @@ (<<2, 2, 5>> :> v.t336)
     @@ (<<2, 3, 5>> :> v.t346)
     @@ (<<3, 0, 2>> :> (v.t413 -- ((h ** cx) ** cy_1)))
     @@ (<<3, 0, 3>> :> (v.t414 ++ (((One -- cx) ** h) ** sy_1)))
     @@ (<<3, 1, 2>> :> (v.t423 -- ((h ** sx) ** cy_1)))
     @@ (<<3, 1, 3>> :> (v.t424 -- ((h ** sx) ** sy_1)))
     @@ (<<3, 2, 5>> :> (v.t436 -- ((h ** dx) ** cy_1)))
     @@ (<<3, 3, 5>> :> (v.t446 -- ((h ** dx) ** sy_1)))
     @@ (<<4, 0, 0>> :> v.T511)
     @@ (<<4, 0, 1>> :> (v.T512 ++ (h ** dx)))
     @@ (<<4, 0, 5>> :> v.T516)
     @@ (<<4, 1, 1>> :> v.T522)
     @@ (<<4, 1, 5>> :> v.T526)
     @@ (<<4, 5, 5>> :> v.T566)
     @@ (<<4, 2, 2>> :> v.T533)
     @@ (<<4, 2, 3>> :> v.T534)
     @@ (<<4, 3, 3>> :> v.T544)

\* Fault model: every entry written at (i, j, k) and at (i, k, j).
Tensor_symmetric(w) ==
    Only({ [t \in Idx \X Idx \X Idx |->
              IF t \in DOMAIN u THEN u[t]
              ELSE IF <<t[1], t[3], t[2]>> \in DOMAIN u
                   THEN u[<<t[1], t[3], t[2]>>]
                   ELSE Zero]
           : u \in {w} })

\* Fault model: the last two indices of every write exchanged.
Tensor_transposed(w) ==
    Only({ [t \in Idx \X Idx \X Idx |->
              IF <<t[1], t[3], t[2]>> \in DOMAIN u
              THEN u[<<t[1], t[3], t[2]>>]
              ELSE Zero]
           : u \in {w} })

\* A 6x6x6 tensor: zeros((6,6,6)) with the entries w written into it.
Tensor(w) ==
    Only({ [t \in Idx \X Idx \X Idx |-> IF t \in DOMAIN u THEN u[t] ELSE Zero]
           : u \in {w} })

\* t_nnn(L, h, k1, k2): the tensor returned, with the forms selected and the
\* divisors evaluated on the way.  Each block is evaluated once and bound.
t_nnn_result(k2, b, a, c) ==
    Only({ Only({ [T        |-> Tensor(w),
                   kxform   |-> KxForm(b.kx2),
                   cross    |-> c.form,
                   tail     |-> d.form,
                   divisors |-> t_nnn_divisors(b, a, c, d)]
                  : w \in {t_nnn_entries(t_nnn_terms(k2, b, a, c, d))} })
           : d \in {t_nnn_tail(b, c)} })

t_nnn(L, h, k1, k2) ==
    Only({ Only({ t_nnn_result(k2, b, a, c)
                  : a \in {t_nnn_kx(b)}, c \in {t_nnn_cross(b)} })
           : b \in {t_nnn_basis(L, h, k1)} })

----------------------------------------------------------------------------
(* The names of the integrals t_nnn assigns and reads.                     *)

\* Lines 116-134: the integrals assigned before the case blocks.
t_nnn_basis_names ==
    {"I111", "I122", "I112", "I11", "I10", "I33", "I34", "I211", "I222",
     "I212", "I21", "I22", "I20", "I43", "I44", "I512", "I51"}

\* Lines 136-175: the integrals each branch of "if kx != 0 / else" assigns.
t_nnn_kx_names(form) ==
    IF form = "kx"
    THEN {"I116", "I12", "I126", "I16", "I166", "I216", "I226", "I26",
          "I266", "I511", "I522", "I516", "I52", "I526", "I50", "I566",
          "I56"}
    ELSE {"I116", "I12", "I126", "I16", "I166", "I216", "I226", "I26",
          "I266", "I511", "I522", "I516", "I52", "I526", "I50", "I566",
          "I56"}

\* Lines 177-225: the integrals each branch of the cross-plane block assigns.
t_nnn_cross_names(form) ==
    IF form = "kxky"
    THEN {"I144", "I133", "I134", "I313", "I324", "I314", "I323", "I244",
          "I233", "I234", "I413", "I424", "I414", "I423"}
    ELSE IF form = "kx"
    THEN {"I323", "I324", "I314", "I313", "I144", "I133", "I134", "I423",
          "I424", "I414", "I413", "I244", "I233", "I234"}
    ELSE {"I144", "I133", "I134", "I313", "I324", "I314", "I323", "I244",
          "I233", "I234", "I413", "I424", "I414", "I423"}

\* Fault model: the branch "elif kx == 0 and ky == 0" without I544.
t_nnn_tail_names_no_I544(form) ==
    IF form = "ky"
    THEN {"I336", "I346", "I436", "I446", "I533", "I534", "I544"}
    ELSE IF form = "poly"
    THEN {"I336", "I346", "I436", "I446", "I533", "I534"}
    ELSE {"I336", "I346", "I436", "I446", "I533", "I534", "I544"}

\* Lines 228-256: the integrals each branch of the last block assigns.
t_nnn_tail_names(form) ==
    IF form = "ky"
    THEN {"I336", "I346", "I436", "I446", "I533", "I534", "I544"}
    ELSE IF form = "poly"
    THEN {"I336", "I346", "I436", "I446", "I533", "I534", "I544"}
    ELSE {"I336", "I346", "I436", "I446", "I533", "I534", "I544"}

\* Lines 258-381: the integrals the terms t*** and the entries of T read.
t_nnn_terms_names ==
    {"I111", "I122", "I112", "I116", "I11", "I126", "I12", "I166", "I16",
     "I10", "I133", "I134", "I144", "I211", "I222", "I212", "I216", "I21",
     "I226", "I22", "I266", "I26", "I20", "I233", "I234", "I244", "I313",
     "I324", "I314", "I323", "I336", "I33", "I346", "I34", "I413", "I424",
     "I414", "I423", "I436", "I43", "I446", "I44", "I511", "I522", "I512",
     "I516", "I51", "I526", "I52", "I566", "I56", "I50", "I533", "I534",
     "I544"}

----------------------------------------------------------------------------
(* t_nnn next to a branch boundary.  A number that depends on a formal     *)
(* offset e is <<s, -1>> with s the truncated Laurent series <<lo, c>> =   *)
(* c[1]*e^lo + c[2]*e^(lo+1) + ... + O(e^(lo+Len(c))) with rational        *)
(* coefficients.  The expressions of t_nnn are evaluated on such numbers   *)
(* to obtain T(L, h, k1 + e, k2) and its limit for e -> 0.                 *)

\* The number of coefficients of an exact number.
Prec == 6

SHi(s) == s[1] + Len(s[2])

SCoef(s, k) == IF k >= s[1] /\ k < SHi(s) THEN s[2][k - s[1] + 1] ELSE Zero

RECURSIVE SPad(_, _)
SPad(c, n) == IF Len(c) >= n THEN c ELSE SPad(Append(c, Zero), n)

AsSeries(a) == IF a[2] < 0 THEN a[1] ELSE <<0, SPad(<<a>>, Prec)>>

Min(m, n) == IF m < n THEN m ELSE n

RECURSIVE SAddCoefs(_, _, _, _)
SAddCoefs(s, t, lo, n) ==
    IF n = 0 THEN <<>>
    ELSE Append(SAddCoefs(s, t, lo, n - 1),
                Add(SCoef(s, lo + n - 1), SCoef(t, lo + n - 1)))

SAdd(s, t) ==
    Only({ <<lo, SAddCoefs(s, t, lo, IF hi > lo THEN hi - lo ELSE 0)>>
           : lo \in {Min(s[1], t[1])}, hi \in {Min(SHi(s), SHi(t))} })

RECURSIVE SNegCoefs(_, _)
SNegCoefs(c, n) ==
    IF n = 0 THEN <<>> ELSE Append(SNegCoefs(c, n - 1), Neg(c[n]))

SNeg(s) == <<s[1], SNegCoefs(s[2], Len(s[2]))>>

\* c[1]*d[k] + c[2]*d[k-1] + ... + c[j]*d[k-j+1]
RECURSIVE SConv(_, _, _, _)
SConv(c, d, k, j) ==
    IF j = 0 THEN Zero
    ELSE Add(SConv(c, d, k, j - 1), Mul(c[j], d[k - j + 1]))

RECURSIVE SMulCoefs(_, _, _)
SMulCoefs(c, d, n) ==
    IF n = 0 THEN <<>> ELSE Append(SMulCoefs(c, d, n - 1), SConv(c, d, n, n))

SMul(s, t) == <<s[1] + t[1], SMulCoefs(s[2], t[2], Min(Len(s[2]), Len(t[2])))>>

\* The series without its leading zero coefficients.
RECURSIVE SStrip(_)
SStrip(s) ==
    IF Len(s[2]) = 0 \/ ~IsZero(s[2][1]) THEN s
    ELSE SStrip(<<s[1] + 1, Tail(s[2])>>)

\* The coefficients of 1/(c[1] + c[2]*e + ...), c[1] # 0.
RECURSIVE SInvCoefs(_, _)
SInvCoefs(c, n) ==
    IF n = 0 THEN <<>>
    ELSE IF n = 1 THEN <<Div(One, c[1])>>
    ELSE Only({ Append(inv, Neg(Div(SConv(Tail(c), inv, n - 1, n - 1), c[1])))
                : inv \in {SInvCoefs(c, n - 1)} })

\* s/t; a divisor that is zero as far as it is known gives a non-finite value.
SDiv(s, t) ==
    Only({ IF Len(d[2]) = 0 THEN NonFinite
           ELSE <<SMul(s, <<-d[1], SInvCoefs(d[2], Len(d[2]))>>), -1>>
           : d \in {SStrip(t)} })

\* The operations of the program on numbers of which one may be a series.
ENeg(a) == IF a[2] < 0 THEN <<SNeg(a[1]), -1>> ELSE Neg(a)

EIsZero(a) == IF a[2] < 0 THEN Len(SStrip(a[1])[2]) = 0 ELSE IsZero(a)

a (+) b ==
    Only({ IF x[2] = 0 \/ y[2] = 0 THEN NonFinite
           ELSE IF x[2] > 0 /\ y[2] > 0 THEN Add(x, y)
           ELSE <<SAdd(AsSeries(x), AsSeries(y)), -1>>
           : x \in {a}, y \in {b} })

a (-) b == a (+) ENeg(b)

a (.) b ==
    Only({ IF x[2] = 0 \/ y[2] = 0 THEN NonFinite
           ELSE IF x[2] > 0 /\ y[2] > 0 THEN Mul(x, y)
           ELSE <<SMul(AsSeries(x), AsSeries(y)), -1>>
           : x \in {a}, y \in {b} })

a (/) b ==
    Only({ IF x[2] = 0 \/ y[2] = 0 THEN NonFinite
           ELSE IF x[2] > 0 /\ y[2] > 0 THEN Div(x, y)
           ELSE SDiv(AsSeries(x), AsSeries(y))
           : x \in {a}, y \in {b} })

\* The number a + e.
PlusE(a) == a (+) <<(<<1, SPad(<<One>>, Prec - 1)>>), -1>>

\* The limit for e -> 0: the coefficient of e^0, or non-finite where a
\* negative power of e is left or the coefficient of e^0 is not known.
SLimit(a) ==
    IF a[2] >= 0 THEN a
    ELSE Only({ IF Len(d[2]) = 0 THEN (IF d[1] >= 1 THEN Zero ELSE NonFinite)
                ELSE IF d[1] < 0 THEN NonFinite
                ELSE SCoef(d, 0)
                : d \in {SStrip(a[1])} })

\* cos(sqrt(u)) and sin(sqrt(u))/sqrt(u) of a series u, the same Maclaurin
\* polynomials as CosSeries and SincSeries.
CosSeries_e(u) ==
    Only({ (One (-) (x (/) Num(2))) (+) ((x (.) x) (/) Num(24)) : x \in {u} })

SincSeries_e(u) ==
    Only({ (One (-) (x (/) Num(6))) (+) ((x (.) x) (/) Num(120)) : x \in {u} })

\* kx = sqrt(kx2 + 0.j), ky = sqrt(ky2 + 0.j): zero exactly when the square is.
KxNonZero_e(kx2) == ~EIsZero(kx2)

KyNonZero_e(ky2) == ~EIsZero(ky2)

\* The if / else of the horizontal integrals I116 .. I56.
KxForm_e(kx2) == IF KxNonZero_e(kx2) THEN "kx" ELSE "poly"

\* The if / elif / else chain of the cross-plane integrals I144 .. I423.
CrossForm_e(kx2, ky2) ==
    IF KxNonZero_e(kx2) /\ KyNonZero_e(ky2) THEN "kxky"
    ELSE IF KxNonZero_e(kx2) /\ ~KyNonZero_e(ky2) THEN "kx"
    ELSE "poly"

\* The if / elif / else chain of I336 .. I544.
TailForm_e(kx2, ky2) ==
    IF ~KxNonZero_e(kx2) /\ KyNonZero_e(ky2) THEN "ky"
    ELSE IF ~KxNonZero_e(kx2) /\ ~KyNonZero_e(ky2) THEN "poly"
    ELSE "else"

\* Lines 91-134: basis functions and the integrals common to all cases.
t_nnn_basis_e(L, h, k1) ==
    LET h2   == h (.) h
        h3   == h2 (.) h
        kx2  == k1 (+) (h (.) h)
        ky2  == ENeg(k1)
        kx4  == kx2 (.) kx2
        ky4  == ky2 (.) ky2
        L2   == L (.) L
        L3   == L2 (.) L
        L4   == L3 (.) L
        L5   == L4 (.) L
        cx   == CosSeries_e(kx2 (.) L2)
        sx   == IF KxNonZero_e(kx2) THEN L (.) SincSeries_e(kx2 (.) L2) ELSE L
        cy   == CosSeries_e(ky2 (.) L2)
        sy   == IF KyNonZero_e(ky2) THEN L (.) SincSeries_e(ky2 (.) L2) ELSE L
        sx2  == sx (.) sx
        sy2  == sy (.) sy
        dx   == IF KxNonZero_e(kx2) THEN (h (/) kx2) (.) (One (-) cx)
                                   ELSE ((L (.) L) (.) h) (/) Num(2)
        dx_h == IF KxNonZero_e(kx2) THEN (One (-) cx) (/) kx2
                                   ELSE (L (.) L) (/) Num(2)
        denom == kx2 (-) (Num(4) (.) ky2)
        I111 == Rat(1, 3) (.) (sx2 (+) dx_h)
        I122 == (dx_h (.) dx_h) (/) Num(3)
        I112 == (sx (.) dx_h) (/) Num(3)
        I11  == (L (.) sx) (/) Num(2)
        I10  == dx_h
        I33  == (L (.) sy) (/) Num(2)
        I34  == IF KyNonZero_e(ky2) THEN (sy (-) (L (.) cy)) (/) (Num(2) (.) ky2)
                                   ELSE L3 (/) Num(6)
        I211 == (sx (/) Num(3)) (.) (One (+) (Num(2) (.) cx))
        I222 == ((Num(2) (.) dx_h) (.) sx) (/) Num(3)
        I212 == Rat(1, 3) (.) ((Num(2) (.) sx2) (-) dx_h)
        I21  == Rat(1, 2) (.) ((L (.) cx) (+) sx)
        I22  == I11
        I20  == sx
        I43  == Rat(1, 2) (.) ((L (.) cy) (+) sy)
        I44  == I33
        I512 == ((h (.) dx_h) (.) dx_h) (/) Num(6)
        I51  == (L (.) dx) (/) Num(2)
    IN  [L |-> L, h |-> h, h2 |-> h2, h3 |-> h3, kx2 |-> kx2, ky2 |-> ky2,
         kx4 |-> kx4, ky4 |-> ky4, L2 |-> L2, L3 |-> L3, L4 |-> L4, L5 |-> L5,
         cx |-> cx, sx |-> sx, cy |-> cy, sy |-> sy, sx2 |-> sx2, sy2 |-> sy2,
         dx |-> dx, dx_h |-> dx_h, denom |-> denom,
         I111 |-> I111, I122 |-> I122, I112 |-> I112, I11 |-> I11, I10 |-> I10,
         I33 |-> I33, I34 |-> I34, I211 |-> I211, I222 |-> I222, I212 |-> I212,
         I21 |-> I21, I22 |-> I22, I20 |-> I20, I43 |-> I43, I44 |-> I44,
         I512 |-> I512, I51 |-> I51]

\* Lines 136-175: the horizontal integrals, one form for kx != 0 and the
\* polynomial form for kx = 0.
t_nnn_kx_e(b) ==
    LET L == b.L
        h == b.h
        h2 == b.h2
        kx2 == b.kx2
        kx4 == b.kx4
        cx == b.cx
        sx == b.sx
        dx == b.dx
        dx_h == b.dx_h
    IN  IF KxForm_e(kx2) = "kx" THEN
          LET I116 == (h (/) kx2) (.) (b.I11 (-) b.I111)
              I12  == (Rat(1, 2) (/) kx2) (.) (sx (-) (L (.) cx))
              I126 == (h (/) kx2) (.) (I12 (-) b.I112)
              I16  == (h (/) kx2) (.) (dx_h (-) ((L (.) sx) (/) Num(2)))
              I166 == (h2 (/) kx4) (.) ((b.I10 (-) (Num(2) (.) b.I11)) (+) b.I111)
              I216 == (h (/) kx2) (.) (b.I21 (-) b.I211)
              I226 == (h (/) kx2) (.) (b.I22 (-) b.I212)
              I26  == (h (/) (Num(2) (.) kx2)) (.) (sx (-) (L (.) cx))
              I266 == (h2 (/) kx4) (.) ((b.I20 (-) (Num(2) (.) b.I21)) (+) b.I211)
              I511 == (h (.) (((Num(3) (.) L) (-) (Num(2) (.) sx)) (-) (sx (.) cx)))
                          (/) (Num(6) (.) kx2)
              I522 == (h (.) (((Num(3) (.) L) (-) (Num(4) (.) sx)) (+) (sx (.) cx)))
                          (/) (Num(6) (.) kx4)
              I516 == (h (/) kx2) (.) (b.I51 (-) I511)
              I52  == ((Num(2) (.) dx) (-) ((h (.) L) (.) sx)) (/) (Num(2) (.) kx2)
              I526 == (h (/) kx2) (.) (I52 (-) b.I512)
              I50  == (h (.) (L (-) sx)) (/) kx2
              I566 == (h2 (/) kx4) (.) ((I50 (-) (Num(2) (.) b.I51)) (+) I511)
              I56  == (h2 (.) ((L (.) (One (+) cx)) (-) (Num(2) (.) sx)))
                          (/) (Num(2) (.) kx4)
          IN  [I116 |-> I116, I12 |-> I12, I126 |-> I126, I16 |-> I16,
               I166 |-> I166, I216 |-> I216, I226 |-> I226, I26 |-> I26,
               I266 |-> I266, I511 |-> I511, I522 |-> I522, I516 |-> I516,
               I52 |-> I52, I526 |-> I526, I50 |-> I50, I566 |-> I566,
               I56 |-> I56,
               divisors |-> {<<"kx2", kx2>>, <<"kx4", kx4>>}]
        ELSE
          [I116 |-> (h (.) b.L4) (/) Num(24),
           I12  |-> b.L3 (/) Num(6),
           I126 |-> (h (.) b.L5) (/) Num(40),
           I16  |-> (h (.) b.L4) (/) Num(24),
           I166 |-> ((h2 (.) b.L5) (.) L) (/) Num(120),
           I216 |-> (h (.) b.L3) (/) Num(6),
           I226 |-> (h (.) b.L4) (/) Num(8),
           I26  |-> (h (.) b.L3) (/) Num(6),
           I266 |-> (h2 (.) b.L5) (/) Num(20),
           I511 |-> (h (.) b.L3) (/) Num(6),
           I522 |-> (h (.) b.L5) (/) Num(60),
           I516 |-> (h2 (.) b.L5) (/) Num(120),
           I52  |-> (h (.) b.L4) (/) Num(24),
           I526 |-> ((h2 (.) b.L5) (.) L) (/) Num(240),
           I50  |-> (h (.) b.L3) (/) Num(6),
           I566 |-> (((h2 (.) h) (.) b.L5) (.) b.L2) (/) Num(840),
           I56  |-> (h2 (.) b.L5) (/) Num(120),
           divisors |-> {}]

\* Lines 177-225: the cross-plane integrals and their derivatives.
t_nnn_cross_e(b) ==
    LET L == b.L
        kx2 == b.kx2
        ky2 == b.ky2
        kx4 == b.kx4
        cx == b.cx
        sx == b.sx
        cy == b.cy
        sy == b.sy
        sy2 == b.sy2
        dx_h == b.dx_h
        denom == b.denom
        form == CrossForm_e(kx2, ky2)
    IN  IF form = "kxky" THEN
          [form |-> form,
           I144 |-> (sy2 (-) (Num(2) (.) dx_h)) (/) denom,
           I133 |-> dx_h (-) ((ky2 (.) (sy2 (-) (Num(2) (.) dx_h))) (/) denom),
           I134 |-> ((sy (.) cy) (-) sx) (/) denom,
           I313 |-> (((kx2 (.) cy) (.) dx_h) (-) (((Num(2) (.) ky2) (.) sx) (.) sy)) (/) denom,
           I324 |-> (((Num(2) (.) cy) (.) dx_h) (-) (sx (.) sy)) (/) denom,
           I314 |-> (((Num(2) (.) cy) (.) sx) (-) ((One (+) cx) (.) sy)) (/) denom,
           I323 |-> ((sy (-) (cy (.) sx)) (-) (((Num(2) (.) ky2) (.) sy) (.) dx_h)) (/) denom,
           I244 |-> (Num(2) (.) ((cy (.) sy) (-) sx)) (/) denom,
           I233 |-> sx (-) (((Num(2) (.) ky2) (.) ((cy (.) sy) (-) sx)) (/) denom),
           I234 |-> ((kx2 (.) dx_h) (-) ((Num(2) (.) ky2) (.) sy2)) (/) denom,
           I413 |-> ((((kx2 (-) (Num(2) (.) ky2)) (.) cy) (.) sx)
                        (-) ((ky2 (.) sy) (.) (One (+) cx))) (/) denom,
           I424 |-> (((cy (.) sx) (-) (cx (.) sy))
                        (-) (((Num(2) (.) ky2) (.) sy) (.) dx_h)) (/) denom,
           I414 |-> ((((kx2 (-) (Num(2) (.) ky2)) (.) sx) (.) sy)
                        (-) ((One (-) cx) (.) cy)) (/) denom,
           I423 |-> (((cy (.) dx_h) (.) (kx2 (-) (Num(2) (.) ky2)))
                        (-) ((ky2 (.) sx) (.) sy)) (/) denom,
           divisors |-> {<<"denom", denom>>}]
        ELSE IF form = "kx" THEN
          [form |-> form,
           I323 |-> (L (-) sx) (/) kx2,
           I324 |-> ((Num(2) (.) (One (-) cx)) (/) kx4) (-) ((L (.) sx) (/) kx2),
           I314 |-> ((Num(2) (.) sx) (-) (L (.) (One (+) cx))) (/) kx2,
           I313 |-> (One (-) cx) (/) kx2,
           I144 |-> ((Num(-2) (+) (kx2 (.) b.L2)) (+) (Num(2) (.) cx)) (/) kx4,
           I133 |-> (One (-) cx) (/) kx2,
           I134 |-> (L (-) sx) (/) kx2,
           I423 |-> (One (-) cx) (/) kx2,
           I424 |-> (sx (-) (L (.) cx)) (/) kx2,
           I414 |-> ((cx (-) One) (/) kx2) (+) (L (.) sx),
           I413 |-> sx,
           I244 |-> ((Num(2) (.) L) (-) (Num(2) (.) sx)) (/) kx2,
           I233 |-> sx,
           I234 |-> (One (-) cx) (/) kx2,
           divisors |-> {<<"kx2", kx2>>, <<"kx4", kx4>>}]
        ELSE
          [form |-> form,
           I144 |-> b.L4 (/) Num(12),
           I133 |-> b.L2 (/) Num(2),
           I134 |-> b.L3 (/) Num(6),
           I313 |-> b.L2 (/) Num(2),
           I324 |-> b.L4 (/) Num(12),
           I314 |-> b.L3 (/) Num(6),
           I323 |-> b.L3 (/) Num(6),
           I244 |-> b.L3 (/) Num(3),
           I233 |-> L,
           I234 |-> b.L2 (/) Num(2),
           I413 |-> L,
           I424 |-> b.L3 (/) Num(3),
           I414 |-> b.L2 (/) Num(2),
           I423 |-> b.L2 (/) Num(2),
           divisors |-> {}]

\* Lines 228-256: I336 .. I446 and the path-length integrals I533, I534, I544.
t_nnn_tail_e(b, c) ==
    LET L == b.L
        h == b.h
        kx2 == b.kx2
        ky2 == b.ky2
        ky4 == b.ky4
        cy == b.cy
        sy == b.sy
        sy2 == b.sy2
        L2 == b.L2
        L3 == b.L3
        denom == b.denom
        form == TailForm_e(kx2, ky2)
    IN  IF form = "ky" THEN
          LET I346 == (h (.) ((((Num(3) (-) ((Num(2) (.) ky2) (.) L2)) (.) L) (.) cy)
                              (+) ((Num(3) (.) ((ky2 (.) L2) (-) One)) (.) sy)))
                          (/) (Num(24) (.) ky4)
          IN  [form |-> form,
               I336 |-> ((h (.) L) (.) (((Num(3) (.) L) (.) cy)
                              (+) ((((Num(2) (.) ky2) (.) L2) (-) Num(3)) (.) sy)))
                          (/) (Num(24) (.) ky2),
               I346 |-> I346,
               I436 |-> I346,
               I446 |-> ((h (.) L) (.) (((Num(-3) (.) L) (.) cy)
                              (+) ((Num(3) (+) ((Num(2) (.) ky2) (.) L2)) (.) sy)))
                          (/) (Num(24) (.) ky2),
               I533 |-> (h (.) (((Num(3) (.) L) (+) ((Num(2) (.) ky2) (.) L3))
                              (-) ((Num(3) (.) sy) (.) cy)))
                          (/) (Num(24) (.) ky2),
               I534 |-> (h (.) (L2 (-) sy2)) (/) (Num(8) (.) ky2),
               I544 |-> (h (.) (((Num(-3) (.) L) (+) ((Num(2) (.) ky2) (.) L3))
                              (+) ((Num(3) (.) sy) (.) cy)))
                          (/) (Num(24) (.) ky4),
               divisors |-> {<<"ky2", ky2>>, <<"ky4", ky4>>}]
        ELSE IF form = "poly" THEN
          [form |-> form,
           I336 |-> (h (.) b.L4) (/) Num(24),
           I346 |-> (h (.) b.L5) (/) Num(40),
           I436 |-> (h (.) L3) (/) Num(6),
           I446 |-> (h (.) b.L4) (/) Num(8),
           I533 |-> (h (.) L3) (/) Num(6),
           I534 |-> (h (.) b.L4) (/) Num(24),
           I544 |-> (h (.) b.L5) (/) Num(60),
           divisors |-> {}]
        ELSE
          [form |-> form,
           I336 |-> (h (/) kx2) (.) (b.I33 (-) c.I313),
           I346 |-> (h (/) kx2) (.) (b.I34 (-) c.I314),
           I436 |-> (h (/) kx2) (.) (b.I43 (-) c.I413),
           I446 |-> (h (/) kx2) (.) (b.I44 (-) c.I414),
           I533 |-> (h (.) (((denom (.) L)
                              (-) ((Num(2) (.) (denom (+) (Num(2) (.) ky2))) (.) b.sx))
                              (+) ((kx2 (.) cy) (.) sy)))
                        (/) ((Num(2) (.) denom) (.) kx2),
           I534 |-> ((h (.) sy2) (-) (Num(2) (.) b.dx)) (/) (Num(2) (.) denom),
           I544 |-> (sy2 (-) (Num(2) (.) b.dx_h)) (/) denom,
           divisors |-> {<<"kx2", kx2>>, <<"denom", denom>>,
                         <<"2*denom*kx2", (Num(2) (.) denom) (.) kx2>>}]

\* Lines 258-296 and 349-371: the second-order terms built from the
\* integrals (b: basis, a: horizontal, c: cross-plane, d: tail block).
t_nnn_terms_e(k2, b, a, c, d) ==
    LET L == b.L
        h == b.h
        h2 == b.h2
        h3 == b.h3
        kx2 == b.kx2
        ky2 == b.ky2
        kx4 == b.kx4
        cx == b.cx
        sx == b.sx
        cy == b.cy
        sy == b.sy
        sx2 == b.sx2
        sy2 == b.sy2
        dx == b.dx
        K2 == k2 (/) Num(2)
        coef1 == (((Num(2) (.) ky2) (.) h) (-) h3) (-) K2
        coef3 == (Num(2) (.) h2) (-) ky2
        coef2 == Num(2) (.) (K2 (-) (ky2 (.) h))
        t511 == (coef1 (.) a.I511) (+) (((h (.) kx4) (.) a.I522) (/) Num(2))
        t512 == ((Num(2) (.) coef1) (.) b.I512) (-) ((h (.) kx2) (.) b.I512)
        t516 == (((Num(2) (.) coef1) (.) a.I516) (+) (coef3 (.) b.I51))
                    (-) ((h2 (.) kx2) (.) a.I522)
        t522 == (coef1 (.) a.I522) (+) ((Rat(1, 2) (.) h) (.) a.I511)
        t526 == (((Num(2) (.) coef1) (.) a.I526) (+) (coef3 (.) a.I52))
                    (+) (h2 (.) b.I512)
        t566 == (((coef1 (.) a.I566) (+) (coef3 (.) a.I56))
                    (+) ((Rat(1, 2) (.) h3) (.) a.I522)) (-) (h (.) a.I50)
        t533 == (K2 (.) d.I533) (-) (((ky2 (.) h) (.) a.I50) (/) Num(2))
        t534 == (Num(2) (.) K2) (.) d.I534
        t544 == (K2 (.) d.I544) (-) ((h (.) a.I50) (/) Num(2))
        i566 == IF KxNonZero_e(kx2)
                THEN (h2 (.) (L (-) (sx (.) cx))) (/) (Num(4) (.) kx2)
                ELSE (h2 (.) b.L3) (/) Num(6)
    IN  [cx |-> cx, sx |-> sx, cy |-> cy, sy |-> sy, dx |-> dx, h |-> h,
         kx2 |-> kx2, ky2 |-> ky2,
         t111 |-> (coef1 (.) b.I111) (+) (((h (.) kx4) (.) b.I122) (/) Num(2)),
         t112 |-> ((Num(2) (.) coef1) (.) b.I112) (-) ((h (.) kx2) (.) b.I112),
         t116 |-> (((Num(2) (.) coef1) (.) a.I116) (+) (coef3 (.) b.I11))
                      (-) ((h2 (.) kx2) (.) b.I122),
         t122 |-> (coef1 (.) b.I122) (+) ((Rat(1, 2) (.) h) (.) b.I111),
         t126 |-> (((Num(2) (.) coef1) (.) a.I126) (+) (coef3 (.) a.I12))
                      (+) (h2 (.) b.I112),
         t166 |-> (((coef1 (.) a.I166) (+) (coef3 (.) a.I16))
                      (+) ((Rat(1, 2) (.) h3) (.) b.I122)) (-) (h (.) b.I10),
         t133 |-> (K2 (.) c.I133) (-) (((ky2 (.) h) (.) b.I10) (/) Num(2)),
         t134 |-> (Num(2) (.) K2) (.) c.I134,
         t144 |-> (K2 (.) c.I144) (-) ((h (.) b.I10) (/) Num(2)),
         t211 |-> (coef1 (.) b.I211) (+) (((h (.) kx4) (.) b.I222) (/) Num(2)),
         t212 |-> ((Num(2) (.) coef1) (.) b.I212) (-) ((h (.) kx2) (.) b.I212),
         t216 |-> (((Num(2) (.) coef1) (.) a.I216) (+) (coef3 (.) b.I21))
                      (-) ((h2 (.) kx2) (.) b.I222),
         t222 |-> (coef1 (.) b.I222) (+) ((Rat(1, 2) (.) h) (.) b.I211),
         t226 |-> (((Num(2) (.) coef1) (.) a.I226) (+) (coef3 (.) b.I22))
                      (+) (h2 (.) b.I212),
         t266 |-> (((coef1 (.) a.I266) (+) (coef3 (.) a.I26))
                      (+) ((Rat(1, 2) (.) h3) (.) b.I222)) (-) (h (.) b.I20),
         t233 |-> (K2 (.) c.I233) (-) (((ky2 (.) h) (.) b.I20) (/) Num(2)),
         t234 |-> (Num(2) (.) K2) (.) c.I234,
         t244 |-> (K2 (.) c.I244) (-) ((h (.) b.I20) (/) Num(2)),
         t313 |-> (coef2 (.) c.I313) (+) (((h (.) kx2) (.) ky2) (.) c.I324),
         t314 |-> (coef2 (.) c.I314) (-) ((h (.) kx2) (.) c.I323),
         t323 |-> (coef2 (.) c.I323) (-) ((h (.) ky2) (.) c.I314),
         t324 |-> (coef2 (.) c.I324) (+) (h (.) c.I313),
         t336 |-> ((coef2 (.) d.I336) (+) (ky2 (.) b.I33))
                      (-) ((h2 (.) ky2) (.) c.I324),
         t346 |-> ((coef2 (.) d.I346) (+) (h2 (.) c.I323)) (+) (ky2 (.) b.I34),
         t413 |-> (coef2 (.) c.I413) (+) (((h (.) kx2) (.) ky2) (.) c.I424),
         t414 |-> (coef2 (.) c.I414) (-) ((h (.) kx2) (.) c.I423),
         t423 |-> (coef2 (.) c.I423) (-) ((h (.) ky2) (.) c.I414),
         t424 |-> (coef2 (.) c.I424) (+) (h (.) c.I413),
         t436 |-> ((coef2 (.) d.I436) (-) ((h2 (.) ky2) (.) c.I424))
                      (+) (ky2 (.) b.I43),
         t446 |-> ((coef2 (.) d.I446) (+) (h2 (.) c.I423)) (+) (ky2 (.) b.I44),
         T511 |-> t511 (+) ((Rat(1, 4) (.) kx2) (.) (L (-) (cx (.) sx))),
         T512 |-> (t512 (-) ((Rat(1, 2) (.) kx2) (.) sx2)) (+) (h (.) dx),
         T516 |-> t516 (+) ((h (.) ((sx (.) cx) (-) L)) (/) Num(2)),
         T522 |-> t522 (+) ((L (+) (sx (.) cx)) (/) Num(4)),
         T526 |-> t526 (+) ((h (.) sx2) (/) Num(2)),
         T566 |-> t566 (+) i566,
         T533 |-> t533 (+) ((Rat(1, 4) (.) ky2) (.) (L (-) (sy (.) cy))),
         T534 |-> t534 (-) ((Rat(1, 2) (.) ky2) (.) sy2),
         T544 |-> t544 (+) ((L (+) (sy (.) cy)) (/) Num(4))]

\* Lines 299-337 and 373-381: T = zeros((6,6,6)) and the entries written.
t_nnn_entries_e(v) ==
    LET h == v.h
        cx == v.cx
        sx == v.sx
        cy == v.cy
        sy == v.sy
        dx == v.dx
        cx_1 == ENeg(v.kx2 (.) sx)
        sx_1 == cx
        cy_1 == ENeg(v.ky2 (.) sy)
        sy_1 == cy
        dx_1 == h (.) sx
    IN  (<<0, 0, 0>> :> v.t111)
     @@ (<<0, 0, 1>> :> (v.t112 (+) (h (.) sx)))
     @@ (<<0, 0, 5>> :> v.t116)
     @@ (<<0, 1, 1>> :> v.t122)
     @@ (<<0, 1, 5>> :> v.t126)
     @@ (<<0, 5, 5>> :> v.t166)
     @@ (<<0, 2, 2>> :> v.t133)
     @@ (<<0, 2, 3>> :> v.t134)
     @@ (<<0, 3, 3>> :> v.t144)
     @@ (<<1, 0, 0>> :> (v.t211 (-) ((h (.) cx) (.) cx_1)))
     @@ (<<1, 0, 1>> :> ((v.t212 (+) (h (.) sx_1))
                            (-) (h (.) ((sx (.) cx_1) (+) (cx (.) sx_1)))))
     @@ (<<1, 0, 5>> :> (v.t216 (-) (h (.) ((dx (.) cx_1) (+) (cx (.) dx_1)))))
     @@ (<<1, 1, 1>> :> (v.t222 (-) ((h (.) sx) (.) sx_1)))
     @@ (<<1, 1, 5>> :> (v.t226 (-) (h (.) ((sx (.) dx_1) (+) (dx (.) sx_1)))))
     @@ (<<1, 5, 5>> :> (v.t266 (-) ((dx (.) h) (.) dx_1)))
     @@ (<<1, 2, 2>> :> v.t233)
     @@ (<<1, 2, 3>> :> v.t234)
     @@ (<<1, 3, 3>> :> v.t244)
     @@ (<<2, 0, 2>> :> v.t313)
     @@ (<<2, 0, 3>> :> (v.t314 (+) (h (.) sy)))
     @@ (<<2, 1, 2>> :> v.t323)
     @@ (<<2, 1, 3>> :> v.t324)
     @@ (<<2, 2, 5>> :> v.t336)
     @@ (<<2, 3, 5>> :> v.t346)
     @@ (<<3, 0, 2>> :> (v.t413 (-) ((h (.) cx) (.) cy_1)))
     @@ (<<3, 0, 3>> :> (v.t414 (+) (((One (-) cx) (.) h) (.) sy_1)))
     @@ (<<3, 1, 2>> :> (v.t423 (-) ((h (.) sx) (.) cy_1)))
     @@ (<<3, 1, 3>> :> (v.t424 (-) ((h (.) sx) (.) sy_1)))
     @@ (<<3, 2, 5>> :> (v.t436 (-) ((h (.) dx) (.) cy_1)))
     @@ (<<3, 3, 5>> :> (v.t446 (-) ((h (.) dx) (.) sy_1)))
     @@ (<<4, 0, 0>> :> v.T511)
     @@ (<<4, 0, 1>> :> (v.T512 (+) (h (.) dx)))
     @@ (<<4, 0, 5>> :> v.T516)
     @@ (<<4, 1, 1>> :> v.T522)
     @@ (<<4, 1, 5>> :> v.T526)
     @@ (<<4, 5, 5>> :> v.T566)
     @@ (<<4, 2, 2>> :> v.T533)
     @@ (<<4, 2, 3>> :> v.T534)
     @@ (<<4, 3, 3>> :> v.T544)

\* T(L, h, k1, k2) with the expressions of t_nnn evaluated on series.
t_nnn_e(L, h, k1, k2) ==
    Only({ Only({ Only({ Tensor(w)
                         : w \in {t_nnn_entries_e(t_nnn_terms_e(k2, b, a, c, d))} })
                  : d \in {t_nnn_tail_e(b, c)} })
           : b \in {t_nnn_basis_e(L, h, k1)},
             a \in {t_nnn_kx_e(t_nnn_basis_e(L, h, k1))},
             c \in {t_nnn_cross_e(t_nnn_basis_e(L, h, k1))} })

----------------------------------------------------------------------------
(* fringe_ent / fringe_ext: the edge maps of a bending magnet.             *)

\* sin, cos and tan of the angle a = <<q, n>> = q + n*pi/2.
\* The Maclaurin polynomials q - q^3/6 and 1 - q^2/2 of the rational part.
SinQ(q) == q ** (One -- ((q ** q) // Num(6)))

CosQ(q) == One -- ((q ** q) // Num(2))

Sin(a) ==
    LET m == a[2] % 4
    IN  IF m = 0 THEN SinQ(a[1])
        ELSE IF m = 1 THEN CosQ(a[1])
        ELSE IF m = 2 THEN Neg(SinQ(a[1]))
        ELSE Neg(CosQ(a[1]))

Cos(a) ==
    LET m == a[2] % 4
    IN  IF m = 0 THEN CosQ(a[1])
        ELSE IF m = 1 THEN Neg(SinQ(a[1]))
        ELSE IF m = 2 THEN Neg(CosQ(a[1]))
        ELSE SinQ(a[1])

Tan(a) == Sin(a) // Cos(a)

\* e - phi for an angle e and a number phi of radians.
AngleSub(e, phi) == <<e[1] -- phi, e[2]>>

\* eye(6) with the entries w written into it.
Matrix(w) ==
    Only({ [p \in Idx \X Idx |->
              IF p \in DOMAIN u THEN u[p] ELSE IF p[1] = p[2] THEN One ELSE Zero]
           : u \in {w} })

Identity == Matrix(<<>>)

\* Lines 431-436 and 459-464: the quantities both edge maps start from.
fringe_common(h, e, gap, fint) ==
    LET sec_e  == One // Cos(e)
        sec_e2 == sec_e ** sec_e
        sec_e3 == sec_e2 ** sec_e
        tan_e  == Tan(e)
        tan_e2 == tan_e ** tan_e
        sin_e  == Sin(e)
        phi    == (((fint ** h) ** gap) ** sec_e) ** (One ++ (sin_e ** sin_e))
    IN  [sec_e |-> sec_e, sec_e2 |-> sec_e2, sec_e3 |-> sec_e3,
         tan_e |-> tan_e, tan_e2 |-> tan_e2, phi |-> phi]

\* Fault model: the fringe-field angle phi left out of R[3,2].
fringe_R_no_phi(h, e, f) ==
    (<<1, 0>> :> (h ** f.tan_e))
 @@ (<<3, 2>> :> (Neg(h) ** Tan(e)))

\* Fault model: the sign of R[3,2] lost.
fringe_R_same_sign(h, e, f) ==
    (<<1, 0>> :> (h ** f.tan_e))
 @@ (<<3, 2>> :> (h ** Tan(AngleSub(e, f.phi))))

\* Fault model: R[1,1] written instead of R[1,0].
fringe_R_diagonal(h, e, f) ==
    (<<1, 1>> :> (h ** f.tan_e))
 @@ (<<3, 2>> :> (Neg(h) ** Tan(AngleSub(e, f.phi))))

\* Lines 437-439 and 465-468: R = eye(6), R[1,0], R[3,2].
fringe_R(h, e, f) ==
    (<<1, 0>> :> (h ** f.tan_e))
 @@ (<<3, 2>> :> (Neg(h) ** Tan(AngleSub(e, f.phi))))

\* Lines 442-454.
fringe_ent_T(h, k1, e, h_pole, f) ==
    LET cos_ep == Cos(AngleSub(e, f.phi))
    IN  (<<0, 0, 0>> :> ((Neg(h) // Num(2)) ** f.tan_e2))
     @@ (<<0, 2, 2>> :> ((h // Num(2)) ** f.sec_e2))
     @@ (<<1, 0, 0>> :> ((((h // Num(2)) ** h_pole) ** f.sec_e3)
                            ++ (k1 ** f.tan_e)))
     @@ (<<1, 0, 1>> :> (h ** f.tan_e2))
     @@ (<<1, 0, 5>> :> (Neg(h) ** f.tan_e))
     @@ (<<1, 2, 2>> :> ((((Neg(k1) ++ ((h ** h) // Num(2)))
                              ++ ((h ** h) ** f.tan_e2)) ** f.tan_e)
                            -- (((h // Num(2)) ** h_pole) ** f.sec_e3)))
     @@ (<<1, 2, 3>> :> (Neg(h) ** f.tan_e2))
     @@ (<<2, 0, 2>> :> (h ** f.tan_e2))
     @@ (<<3, 0, 2>> :> (((Neg(h) ** h_pole) ** f.sec_e3)
                            -- ((Num(2) ** k1) ** f.tan_e)))
     @@ (<<3, 0, 3>> :> (Neg(h) ** f.tan_e2))
     @@ (<<3, 1, 2>> :> (Neg(h) ** f.sec_e2))
     @@ (<<3, 2, 5>> :> ((h ** f.tan_e)
                            -- ((h ** f.phi) // (cos_ep ** cos_ep))))

\* Lines 471-483.
fringe_ext_T(h, k1, e, h_pole, f) ==
    LET cos_ep == Cos(AngleSub(e, f.phi))
    IN  (<<0, 0, 0>> :> ((h // Num(2)) ** f.tan_e2))
     @@ (<<0, 2, 2>> :> ((Neg(h) // Num(2)) ** f.sec_e2))
     @@ (<<1, 0, 0>> :> ((((h // Num(2)) ** h_pole) ** f.sec_e3)
                            -- ((Neg(k1) ++ (((h ** h) // Num(2)) ** f.tan_e2))
                                   ** f.tan_e)))
     @@ (<<1, 0, 1>> :> (Neg(h) ** f.tan_e2))
     @@ (<<1, 0, 5>> :> (Neg(h) ** f.tan_e))
     @@ (<<1, 2, 2>> :> (((Neg(k1) -- (((h ** h) // Num(2)) ** f.tan_e2))
                              ** f.tan_e)
                            -- (((h // Num(2)) ** h_pole) ** f.sec_e3)))
     @@ (<<1, 2, 3>> :> (h ** f.tan_e2))
     @@ (<<2, 0, 2>> :> (Neg(h) ** f.tan_e2))
     @@ (<<3, 0, 2>> :> (((Neg(h) ** h_pole) ** f.sec_e3)
                            ++ ((Neg(k1) ++ ((h ** h) ** f.sec_e2)) ** f.tan_e)))
     @@ (<<3, 0, 3>> :> (h ** f.tan_e2))
     @@ (<<3, 1, 2>> :> (h ** f.sec_e2))
     @@ (<<3, 2, 5>> :> ((h ** f.tan_e)
                            -- ((h ** f.phi) // (cos_ep ** cos_ep))))

\* fringe_ent(h, k1, e, h_pole, gap, fint): returns (R, T).  No statement of
\* the function raises; raised records the exception of the call.
fringe_ent(h, k1, e, h_pole, gap, fint) ==
    Only({ [R |-> Matrix(fringe_R(h, e, f)),
            T |-> Tensor(fringe_ent_T(h, k1, e, h_pole, f)),
            phi |-> f.phi,
            raised |-> "none"]
           : f \in {fringe_common(h, e, gap, fint)} })

fringe_ext(h, k1, e, h_pole, gap, fint) ==
    Only({ [R |-> Matrix(fringe_R(h, e, f)),
            T |-> Tensor(fringe_ext_T(h, k1, e, h_pole, f)),
            phi |-> f.phi,
            raised |-> "none"]
           : f \in {fringe_common(h, e, gap, fint)} })

----------------------------------------------------------------------------
(* sym_map(z, X, h, k1, k2, energy): the symplectic stepper.               *)

\* Energies are measured in electron rest energies, so that gamma = energy.
m_e_GeV == One

\* Line 585: the internal step 0.005 of a segment with a field.  sym_map is
\* homogeneous in the unit of length (step*h, step*px/x, step*c1*x, ... are
\* pure numbers), so the model measures every length of sym_map (z, step, x,
\* y, sigma, 1/h, k1^(-1/2), k2^(-1/3)) in units of 0.001: 0.005 is 5/1.
step_default == Rat(5, 1)

ISqrt(n) == CHOOSE r \in 0 .. n : r * r <= n /\ (r + 1) * (r + 1) > n

\* sqrt of a float: nan for a negative argument.
Sqrt(a) ==
    IF a[2] = 0 \/ a[1] < 0 THEN NonFinite ELSE Rat(ISqrt(a[1]), ISqrt(a[2]))

\* int(q) of a float: truncation towards zero.
IntOf(a) == IF a[1] >= 0 THEN a[1] \div a[2] ELSE -((-a[1]) \div a[2])

\* Fault model: the else branch (step = z for a drift) missing.
sym_map_step0_no_drift(z, h, k1, k2) ==
    IF Less(z, step_default) THEN z ELSE step_default

\* Lines 584-589: the step-size policy.
sym_map_step0(z, h, k1, k2) ==
    LET step == IF ~IsZero(h) \/ ~IsZero(k1) \/ ~IsZero(k2)
                THEN step_default ELSE z
    IN  IF Less(z, step) THEN z ELSE step

\* Fault model: the end point of z_array not counted.
sym_map_n_no_endpoint(z, step) == IntOf(z // step)

\* Line 592: n = int(z/step) + 1.
sym_map_n(z, step) == IntOf(z // step) + 1

\* Fault model: the segment divided by the number of points, not of intervals.
sym_map_step_points(z, n) == z // Num(n)

\* Lines 599-600: z_array = linspace(0., z, num=n); step = z_array[1] - z_array[0].
sym_map_step(z, n) == z // Num(n - 1)

\* Lines 593-598: g_inv and beta.
sym_map_rel(energy) ==
    LET gamma == energy // m_e_GeV
    IN  IF ~IsZero(gamma)
        THEN LET g_inv == One // gamma
             IN  [g_inv |-> g_inv, beta |-> Sqrt(One -- (g_inv ** g_inv))]
        ELSE [g_inv |-> Zero, beta |-> One]

\* The strided slice X[c::6] of the ensemble array, one value per particle.
Slice(X, c) == [p \in 1 .. (Len(X) \div 6) |-> X[6 * (p - 1) + c + 1]]

\* Fault model: the loop body of verlet1O, without the terms in k2, h*k1
\* and px^2 + py^2.
sym_map_iter_first_order(q, ps_beta, step, h, k1, beta, c1, c2, c3, c4) ==
    LET x == q.x ++ (step ** q.px)
        y == q.y ++ (step ** q.py)
        sigma == q.sigma -- (((step ** h) ** x) // beta)
        px == q.px -- (step ** ((c1 ** x) -- (h ** ps_beta)))
        py == q.py ++ ((step ** k1) ** y)
    IN  [x |-> x, px |-> px, y |-> y, py |-> py, sigma |-> sigma]

\* Lines 619-625: one iteration of the loop for one particle
\* q = [x, px, y, py, sigma], with ps_beta = ps/beta.
sym_map_iter(q, ps_beta, step, h, k1, beta, c1, c2, c3, c4) ==
    LET px2_py2 == (q.px ** q.px) ++ (q.py ** q.py)
        x == (q.x ++ ((step ** q.px) ** (One -- ps_beta)))
                 // (One -- ((step ** h) ** q.px))
        y == q.y ++ ((step ** q.py) ** ((One ++ (h ** x)) -- ps_beta))
        sigma == q.sigma ++ (step ** (((Neg(h) ** x) // beta)
                                -- (px2_py2 // (Num(2) ** beta)) -- c4))
        px == q.px ++ (step ** (((h ** ps_beta)
                                ++ (((Neg(h) ** px2_py2) ++ ((c3 ** y) ** y)) // Num(2)))
                                -- ((c1 ++ (c2 ** x)) ** x)))
        py == q.py ++ ((step ** (k1 ++ (c3 ** x))) ** y)
    IN  [x |-> x, px |-> px, y |-> y, py |-> py, sigma |-> sigma]

----------------------------------------------------------------------------
(* H23, verlet, verlet1O: the Hamiltonian's derivatives and one step of    *)
(* the symplectic integrator, for one particle vec_x = <<x, px, y, py,     *)
(* sigma, ps>>.                                                            *)

\* Lines 486-519: [x', px', y', py', sigma', psigma'].
H23(vec_x, h, k1, k2, beta, g_inv) ==
    LET x   == vec_x[1]
        px  == vec_x[2]
        y   == vec_x[3]
        py  == vec_x[4]
        ps  == vec_x[6]
        px2 == px ** px
        py2 == py ** py
        x2  == x ** x
        y2  == y ** y
        ps_beta == ps // beta
        k   == (One ++ (h ** x)) -- ps_beta
        x1  == px ** k
        px1 == ((Neg((h ** h) ++ k1) ** x) ++ (h ** ps_beta))
                  ++ ((((Neg(h) ** (px2 ++ py2))
                          -- ((((Num(2) ** h) ** k1) ++ k2) ** x2))
                          ++ (((h ** k1) ++ k2) ** y2)) // Num(2))
        y1  == py ** k
        py1 == (k1 ** y) ++ ((((h ** k1) ++ k2) ** x) ** y)
        sigma1 == ((Neg(h ** x) // beta) -- ((px2 ++ py2) // (Num(2) ** beta)))
                     -- ((g_inv ** g_inv) // (beta ** (One ++ beta)))
    IN  <<x1, px1, y1, py1, sigma1, Zero>>

\* Fault model: the momenta advanced with the old position x instead of
\* the new position x1.
verlet_old_position(vec_x, step, h, k1, k2, beta, g_inv) ==
    LET x   == vec_x[1]
        px  == vec_x[2]
        y   == vec_x[3]
        py  == vec_x[4]
        sigma == vec_x[5]
        ps  == vec_x[6]
        px2_py2 == (px ** px) ++ (py ** py)
        ps_beta == ps // beta
        x1  == (x ++ ((step ** px) ** (One -- ps_beta)))
                  // (One -- ((step ** h) ** px))
        y1  == y ++ ((step ** py) ** ((One ++ (h ** x1)) -- ps_beta))
        v4  == sigma ++ (step ** (((Neg(h) ** x1) // beta)
                            -- (px2_py2 // (Num(2) ** beta))
                            -- ((g_inv ** g_inv) // (beta ** (One ++ beta)))))
        px_d == ((Neg(((h ** h) ++ k1) ++ (((h ** k1) ++ (k2 // Num(2))) ** x)) ** x)
                    ++ (h ** ps_beta))
                   ++ (((Neg(h) ** px2_py2) ++ ((((h ** k1) ++ k2) ** y1) ** y1))
                          // Num(2))
        py_d == (k1 ++ (((h ** k1) ++ k2) ** x)) ** y1
    IN  <<x1, px ++ (step ** px_d), y1, py ++ (step ** py_d), v4, ps>>

\* Lines 522-546: the list vec_x after the call (it is also what is
\* returned).
verlet(vec_x, step, h, k1, k2, beta, g_inv) ==
    LET x   == vec_x[1]
        px  == vec_x[2]
        y   == vec_x[3]
        py  == vec_x[4]
        sigma == vec_x[5]
        ps  == vec_x[6]
        px2_py2 == (px ** px) ++ (py ** py)
        ps_beta == ps // beta
        x1  == (x ++ ((step ** px) ** (One -- ps_beta)))
                  // (One -- ((step ** h) ** px))
        y1  == y ++ ((step ** py) ** ((One ++ (h ** x1)) -- ps_beta))
        v4  == sigma ++ (step ** (((Neg(h) ** x1) // beta)
                            -- (px2_py2 // (Num(2) ** beta))
                            -- ((g_inv ** g_inv) // (beta ** (One ++ beta)))))
        px_d == ((Neg(((h ** h) ++ k1) ++ (((h ** k1) ++ (k2 // Num(2))) ** x1)) ** x1)
                    ++ (h ** ps_beta))
                   ++ (((Neg(h) ** px2_py2) ++ ((((h ** k1) ++ k2) ** y1) ** y1))
                          // Num(2))
        py_d == (k1 ++ (((h ** k1) ++ k2) ** x1)) ** y1
    IN  <<x1, px ++ (step ** px_d), y1, py ++ (step ** py_d), v4, ps>>

\* Lines 548-574: the first-order variant.
verlet1O(vec_x, step, h, k1, k2, beta, g_inv) ==
    LET x   == vec_x[1]
        px  == vec_x[2]
        y   == vec_x[3]
        py  == vec_x[4]
        sigma == vec_x[5]
        ps  == vec_x[6]
        ps_beta == ps // beta
        x1  == x ++ (step ** px)
        y1  == y ++ (step ** py)
        v4  == sigma -- (((step ** h) ** x1) // beta)
        v1  == px -- (step ** ((((h ** h) ++ k1) ** x1) -- (h ** ps_beta)))
        v3  == py ++ ((step ** k1) ** y1)
    IN  <<x1, v1, y1, v3, v4, ps>>

----------------------------------------------------------------------------
(* rk_track_in_field / rk_field: Runge-Kutta tracking in a sampled field.  *)

\* Fields are measured in units in which speed_of_light/m_e_eV = 1.
speed_of_light == One

m_e_eV == One

\* The wavenumbers kx, ky, kz are measured in quarter turns (pi/2) per unit
\* length: the angle k*s is q = k*s quarter turns, its whole part reduced by
\* quadrant and its fractional part converted to radians with pi/2 = 11/7.
Angle(q) ==
    IF ~IsFinite(q) THEN <<NonFinite, 0>>
    ELSE <<(q -- Num(q[1] \div q[2])) ** Rat(11, 7), q[1] \div q[2]>>

\* sinh and cosh, Maclaurin polynomials q + q^3/6 and 1 + q^2/2.
Sinh(q) == q ** (One ++ ((q ** q) // Num(6)))

Cosh(q) == One ++ ((q ** q) // Num(2))

\* Lines 1097-1099 (and 1113-1115, 1133-1135, 1154-1156): the undulator
\* field at (x, y, z).
und_field(kx, ky, kz, B0, x, y, z) ==
    LET ax == Angle(kx ** x)
        az == Angle(kz ** z)
        qy == (ky ** y) ** Rat(11, 7)
    IN  <<(((Neg(B0) ** (kx // ky)) ** Sin(ax)) ** Sinh(qy)) ** Cos(az),
          ((B0 ** Cos(ax)) ** Cosh(qy)) ** Cos(az),
          (((Neg(B0) ** (kz // ky)) ** Cos(ax)) ** Sinh(qy)) ** Sin(az)>>

\* mag_field(X, Y, Z): the field-sampling function the caller passes in.
\*   "zero":     no field;
\*   "solenoid": Bz = 1 + X + Z;
\*   "pole":     Bz = 1/(2*Z - 1), not finite at Z = 1/2;
\*   "dipole":   By = 1 for 0 < Z < 1 and 0 elsewhere;
\*   "fringe":   By = 0 for 0 < Z < 1 and 1 elsewhere.
\*   "skew":     Bx = 1 + Y, By = X, Bz = 1 (sampled by the solver only).
\*   "undulator": the field of a planar undulator with kx = 0, ky = kz = 2
\*               and B0 = 2 (Kx = 1).
\* "dipole" and "fringe" deflect the particle in x.
mag_field(name, X, Y, Z) ==
    IF name = "solenoid" THEN <<Zero, Zero, (One ++ X) ++ Z>>
    ELSE IF name = "dipole"
         THEN <<Zero, IF Less(Zero, Z) /\ Less(Z, One) THEN One ELSE Zero, Zero>>
    ELSE IF name = "fringe"
         THEN <<Zero, IF Less(Zero, Z) /\ Less(Z, One) THEN Zero ELSE One, Zero>>
    ELSE IF name = "skew" THEN <<One ++ Y, X, One>>
    ELSE IF name = "pole" THEN <<Zero, Zero, One // ((Num(2) ** Z) -- One)>>
    ELSE IF name = "undulator"
         THEN und_field(Zero, Num(2), Num(2), Num(2), X, Y, Z)
    ELSE <<Zero, Zero, Zero>>

\* Lines 686-695.  np.sqrt is exact on the squares of rationals and rounded
\* otherwise.
moments(bx, by, Bx, By, Bz, dzk) ==
    LET bx2 == bx ** bx
        by2 == by ** by
        bxy == bx ** by
        sq  == Sqrt((One ++ bx2) ++ by2)
        k   == sq ** dzk
    IN  <<k ** (((by ** Bz) -- (By ** (One ++ bx2))) ++ (bxy ** Bx)),
          Neg(k) ** (((bx ** Bz) -- (Bx ** (One ++ by2))) ++ (bxy ** By))>>

\* Lines 699-720: the step, the constants and the first sample of u.
rk_track_init(y0, l, N, energy) ==
    LET dz      == l // Num(N - 1)
        gamma   == energy // m_e_GeV
        dGamma2 == One -- (Rat(1, 2) // (gamma ** gamma))
        k       == speed_of_light // ((m_e_eV ** One) ** gamma)
        px      == Slice(y0, 1)
        py      == Slice(y0, 3)
    IN  [dz |-> dz, dGamma2 |-> dGamma2, dzk |-> dz ** k,
         u |-> [row \in 0 .. (9 * N - 1) |->
                  [p \in 1 .. (Len(y0) \div 6) |->
                     IF row \in 0 .. 3 THEN Slice(y0, row)[p]
                     ELSE IF row = 4 THEN Zero
                     ELSE IF row = 5
                          THEN dGamma2 -- (((px[p] ** px[p]) ++ (py[p] ** py[p]))
                                              // Num(2))
                     ELSE Zero]]]

\* One stage (K1 .. K4) of a Runge-Kutta step of one particle: the slopes
\* bx, by of the stage, kx = bx*dz, ky = by*dz, the field B sampled at the
\* stage's point (s.X + dX, s.Y + dY, s.Z + dZ) and the moments m = (mx, my).
rk_stage(s, c, bx, by, dX, dY, dZ) ==
    Only({ [at |-> <<s.X ++ dX, s.Y ++ dY, s.Z ++ dZ>>,
            B  |-> B,
            m  |-> moments(bx, by, B[1], B[2], B[3], c.dzk),
            kx |-> bx ** c.dz,
            ky |-> by ** c.dz]
           : B \in {mag_field(c.field, s.X ++ dX, s.Y ++ dY, s.Z ++ dZ)} })

\* Fault model: the four stages weighted equally, (k1 + k2 + k3 + k4)/4.
rk_combine_unweighted(s, c, g1, g2, g3, g4) ==
    Only({ [B |-> g1.B,
            next |-> <<s.X ++ (Rat(1, 4) ** (((g1.kx ++ g2.kx) ++ g3.kx) ++ g4.kx)),
                       bx1,
                       s.Y ++ (Rat(1, 4) ** (((g1.ky ++ g2.ky) ++ g3.ky) ++ g4.ky)),
                       by1,
                       s.Z ++ c.dz,
                       c.dGamma2 -- (((bx1 ** bx1) ++ (by1 ** by1)) // Num(2))>>,
            sampled |-> {g1.B, g2.B, g3.B, g4.B},
            calls |-> <<g1.at, g2.at, g3.at, g4.at>>]
           : bx1 \in {s.bx ++ (Rat(1, 4)
                        ** (((g1.m[1] ++ g2.m[1]) ++ g3.m[1]) ++ g4.m[1]))},
             by1 \in {s.by ++ (Rat(1, 4)
                        ** (((g1.m[2] ++ g2.m[2]) ++ g3.m[2]) ++ g4.m[2]))} })

\* Lines 761-766: the next sample from the four stages.
rk_combine(s, c, g1, g2, g3, g4) ==
    Only({ [B |-> g1.B,
            next |-> <<s.X ++ (Rat(1, 6)
                         ** ((g1.kx ++ (Num(2) ** (g2.kx ++ g3.kx))) ++ g4.kx)),
                       bx1,
                       s.Y ++ (Rat(1, 6)
                         ** ((g1.ky ++ (Num(2) ** (g2.ky ++ g3.ky))) ++ g4.ky)),
                       by1,
                       s.Z ++ c.dz,
                       c.dGamma2 -- (((bx1 ** bx1) ++ (by1 ** by1)) // Num(2))>>,
            sampled |-> {g1.B, g2.B, g3.B, g4.B},
            calls |-> <<g1.at, g2.at, g3.at, g4.at>>]
           : bx1 \in {s.bx ++ (Rat(1, 6)
                        ** ((g1.m[1] ++ (Num(2) ** (g2.m[1] ++ g3.m[1])))
                               ++ g4.m[1]))},
             by1 \in {s.by ++ (Rat(1, 6)
                        ** ((g1.m[2] ++ (Num(2) ** (g2.m[2] ++ g3.m[2])))
                               ++ g4.m[2]))} })

\* Lines 723-766: one Runge-Kutta step of one particle, from the sample
\* s = [X, bx, Y, by, Z]; c holds dz, dzk, dGamma2 and the field.
rk_track_step(s, c) ==
    Only({ Only({ Only({ Only({ rk_combine(s, c, g1, g2, g3, g4)
        : g4 \in {rk_stage(s, c, s.bx ++ g3.m[1], s.by ++ g3.m[2],
                           g3.kx, g3.ky, c.dz)} })
        : g3 \in {rk_stage(s, c, s.bx ++ (g2.m[1] // Num(2)),
                           s.by ++ (g2.m[2] // Num(2)),
                           g2.kx // Num(2), g2.ky // Num(2),
                           c.dz // Num(2))} })
        : g2 \in {rk_stage(s, c, s.bx ++ (g1.m[1] // Num(2)),
                           s.by ++ (g1.m[2] // Num(2)),
                           g1.kx // Num(2), g1.ky // Num(2),
                           c.dz // Num(2))} })
        : g1 \in {rk_stage(s, c, s.bx, s.by, Zero, Zero, Zero)} })

\* The sample i of particle p in the trajectory u.
rk_sample(u, i, p) ==
    [X |-> u[9 * i][p], bx |-> u[9 * i + 1][p], Y |-> u[9 * i + 2][p],
     by |-> u[9 * i + 3][p], Z |-> u[9 * i + 4][p]]

RECURSIVE rk_track_steps(_, _, _, _)
\* The Runge-Kutta step of each of the particles 1 .. n.
rk_track_steps(u, i, c, n) ==
    IF n = 0 THEN <<>>
    ELSE Append(rk_track_steps(u, i, c, n - 1),
                rk_track_step(rk_sample(u, i, n), c))

\* Lines 722-766: pass i of the loop, all particles together: the rows
\* u[i*9 + 6 .. i*9 + 8] and u[(i+1)*9 + 0 .. (i+1)*9 + 5] are written.
rk_track_pass(u, i, c) ==
    Only({ [row \in DOMAIN u |->
              [p \in DOMAIN u[row] |->
                 IF row \in (9 * i + 6) .. (9 * i + 8)
                 THEN r[p].B[row - (9 * i + 5)]
                 ELSE IF row \in (9 * (i + 1)) .. (9 * (i + 1) + 5)
                      THEN r[p].next[row - 9 * (i + 1) + 1]
                      ELSE u[row][p]]]
           : r \in {rk_track_steps(u, i, c, Len(u[0]))} })

RECURSIVE rk_last_fields(_, _, _, _)
\* mag_field at the last sample of each of the particles 1 .. n.
rk_last_fields(u, N, field, n) ==
    IF n = 0 THEN <<>>
    ELSE Append(rk_last_fields(u, N, field, n - 1),
                mag_field(field, u[9 * (N - 1)][n], u[9 * (N - 1) + 2][n],
                          u[9 * (N - 1) + 4][n]))

rk_track_last_unsampled(u, N, field) == u

\* Line 768: the field at the last sample.
rk_track_last(u, N, field) ==
    Only({ [row \in DOMAIN u |->
              [p \in DOMAIN u[row] |->
                 IF row \in (9 * (N - 1) + 6) .. (9 * (N - 1) + 8)
                 THEN B[p][row - (9 * (N - 1) + 5)]
                 ELSE u[row][p]]]
           : B \in {rk_last_fields(u, N, field, Len(u[0]))} })

rk_field_store_all(y0, u, N) ==
    [j \in 1 .. Len(y0) |-> u[9 * (N - 1) + ((j - 1) % 6)][((j - 1) \div 6) + 1]]

\* Lines 776-785: rk_field writes the last sample into y0[0::6] .. y0[3::6].
rk_field_store(y0, u, N) ==
    [j \in 1 .. Len(y0) |->
        IF (j - 1) % 6 <= 3
        THEN u[9 * (N - 1) + ((j - 1) % 6)][((j - 1) \div 6) + 1]
        ELSE y0[j]]

----------------------------------------------------------------------------
(* scipy_track_in_field: the right-hand side func(y, z, fields) that the   *)
(* adaptive solver odeint calls.  y = X, bx, Y, by of the n particles, one *)
(* block of n values each.                                                 *)

\* Fault model: the linearised sq = 1 + (bx2 + by2)/2 of the comment.
scipy_func_linear_sq(y, z, fields, energy) ==
    LET gamma == energy // m_e_GeV
        k0    == speed_of_light // ((m_e_eV ** One) ** gamma)
        n     == Len(y) \div 4
        d     == [p \in 1 .. n |->
                    LET X   == y[p]
                        bx  == y[n + p]
                        Y   == y[2 * n + p]
                        by  == y[3 * n + p]
                        bx2 == bx ** bx
                        by2 == by ** by
                        bxy == bx ** by
                        sq  == One ++ ((bx2 ++ by2) // Num(2))
                        k   == sq ** k0
                        B   == mag_field(fields, X, Y, z)
                    IN  [bx |-> bx,
                         mx |-> k ** (((by ** B[3]) -- (B[2] ** (One ++ bx2)))
                                        ++ (bxy ** B[1])),
                         by |-> by,
                         my |-> Neg(k) ** (((bx ** B[3]) -- (B[1] ** (One ++ by2)))
                                             ++ (bxy ** B[2]))]]
    IN  [j \in 1 .. (4 * n) |->
            IF j <= n THEN d[j].bx
            ELSE IF j <= 2 * n THEN d[j - n].mx
            ELSE IF j <= 3 * n THEN d[j - 2 * n].by
            ELSE d[j - 3 * n].my]

\* Lines 790-809: func(y, z, fields), the derivative of y with respect to z.
scipy_func(y, z, fields, energy) ==
    LET gamma == energy // m_e_GeV
        k0    == speed_of_light // ((m_e_eV ** One) ** gamma)
        n     == Len(y) \div 4
        d     == [p \in 1 .. n |->
                    LET X   == y[p]
                        bx  == y[n + p]
                        Y   == y[2 * n + p]
                        by  == y[3 * n + p]
                        bx2 == bx ** bx
                        by2 == by ** by
                        bxy == bx ** by
                        sq  == Sqrt((One ++ bx2) ++ by2)
                        k   == sq ** k0
                        B   == mag_field(fields, X, Y, z)
                    IN  [bx |-> bx,
                         mx |-> k ** (((by ** B[3]) -- (B[2] ** (One ++ bx2)))
                                        ++ (bxy ** B[1])),
                         by |-> by,
                         my |-> Neg(k) ** (((bx ** B[3]) -- (B[1] ** (One ++ by2)))
                                             ++ (bxy ** B[2]))]]
    IN  [j \in 1 .. (4 * n) |->
            IF j <= n THEN d[j].bx
            ELSE IF j <= 2 * n THEN d[j - n].mx
            ELSE IF j <= 3 * n THEN d[j - 2 * n].by
            ELSE d[j - 3 * n].my]

----------------------------------------------------------------------------
(* track_und_weave_openmp(u, l, N, kz, kx, Kx, energy): Runge-Kutta        *)
(* tracking in an undulator field, one OpenMP thread per particle.         *)

\* Lines 1028-1039: the scalars passed to the C code in q.
tw_init(l, N, kz, kx, Kx, energy) ==
    LET gamma == energy // m_e_GeV
        dz    == l // Num(N - 1)
    IN  [kx |-> kx, ky |-> Sqrt((kz ** kz) -- (kx ** kx)), kz |-> kz,
         dz |-> dz, N |-> N,
         B0 |-> ((Kx ** m_e_eV) ** kz) // speed_of_light,
         gamma |-> gamma,
         dzk |-> dz ** (speed_of_light // ((m_e_eV ** One) ** gamma))]

\* Lines 1063-1087: the private variables of the iteration of particle n
\* (numbered from 1) at the start of its loop over i.
tw_thread(U1, n) ==
    [X |-> U1[6 * (n - 1) + 1], bxconst |-> U1[6 * (n - 1) + 2],
     Y |-> U1[6 * (n - 1) + 3], byconst |-> U1[6 * (n - 1) + 4],
     Z |-> Zero, i |-> 0, st |-> 1, ph |-> "sq",
     bx |-> Zero, by |-> Zero, B |-> <<Zero, Zero, Zero>>,
     kxs |-> <<>>, kys |-> <<>>, mxs |-> <<>>, mys |-> <<>>,
     wrote |-> Zero]

\* The point (x, y, z) at which stage st samples the field.
tw_point(t, c) ==
    IF t.st = 1 THEN <<t.X, t.Y, t.Z>>
    ELSE IF t.st = 4
         THEN <<t.X ++ t.kxs[3], t.Y ++ t.kys[3], t.Z ++ c.dz>>
         ELSE <<t.X ++ (t.kxs[t.st - 1] // Num(2)),
                t.Y ++ (t.kys[t.st - 1] // Num(2)),
                t.Z ++ (c.dz // Num(2))>>

\* The slopes (bx, by) of stage st.
tw_slope(t) ==
    IF t.st = 1 THEN <<t.bxconst, t.byconst>>
    ELSE IF t.st = 4
         THEN <<t.bxconst ++ t.mxs[3], t.byconst ++ t.mys[3]>>
         ELSE <<t.bxconst ++ (t.mxs[t.st - 1] // Num(2)),
                t.byconst ++ (t.mys[t.st - 1] // Num(2))>>

\* A stage up to its assignment to sq: the field, the slopes, kx_st, ky_st
\* (private) and the value assigned to sq.
tw_stage_sq(t, c) ==
    Only({ [t EXCEPT
              !.B = und_field(c.kx, c.ky, c.kz, c.B0, P[1], P[2], P[3]),
              !.bx = b[1], !.by = b[2],
              !.kxs = Append(@, b[1] ** c.dz),
              !.kys = Append(@, b[2] ** c.dz),
              !.wrote = Sqrt((One ++ (b[1] ** b[1])) ++ (b[2] ** b[2])),
              !.ph = "mx"]
           : P \in {tw_point(t, c)}, b \in {tw_slope(t)} })

\* mx_st = sq*(by*Bz - By*(1+bx2) + bx*by*Bx)*dzk, with the sq read.
tw_stage_mx(t, c, sq) ==
    [t EXCEPT
       !.mxs = Append(@, (sq ** (((t.by ** t.B[3])
                                   -- (t.B[2] ** (One ++ (t.bx ** t.bx))))
                                  ++ ((t.bx ** t.by) ** t.B[1]))) ** c.dzk),
       !.ph = "my"]

\* Lines 1176-1181: X, bxconst, Y, byconst and Z after the four stages.
tw_advance(t, c) ==
    [t EXCEPT
       !.X = @ ++ (Rat(1, 6) ** (((t.kxs[1] ++ (Num(2) ** t.kxs[2]))
                                   ++ (Num(2) ** t.kxs[3])) ++ t.kxs[4])),
       !.bxconst = @ ++ (Rat(1, 6) ** (((t.mxs[1] ++ (Num(2) ** t.mxs[2]))
                                   ++ (Num(2) ** t.mxs[3])) ++ t.mxs[4])),
       !.Y = @ ++ (Rat(1, 6) ** (((t.kys[1] ++ (Num(2) ** t.kys[2]))
                                   ++ (Num(2) ** t.kys[3])) ++ t.kys[4])),
       !.byconst = @ ++ (Rat(1, 6) ** (((t.mys[1] ++ (Num(2) ** t.mys[2]))
                                   ++ (Num(2) ** t.mys[3])) ++ t.mys[4])),
       !.Z = @ ++ c.dz,
       !.i = @ + 1,
       !.st = 1,
       !.ph = IF t.i + 1 < c.N - 1 THEN "sq" ELSE "store",
       !.kxs = <<>>, !.kys = <<>>, !.mxs = <<>>, !.mys = <<>>]

\* my_st = -sq*(bx*Bz - Bx*(1+by2) + bx*by*By)*dzk, with the sq read; after
\* the fourth stage the particle advances.
tw_stage_my(t, c, sq) ==
    Only({ IF t.st < 4 THEN [r EXCEPT !.st = @ + 1, !.ph = "sq"]
           ELSE tw_advance(r, c)
           : r \in {[t EXCEPT
                       !.mys = Append(@, (Neg(sq)
                                  ** (((t.bx ** t.B[3])
                                        -- (t.B[1] ** (One ++ (t.by ** t.by))))
                                       ++ ((t.bx ** t.by) ** t.B[2]))) ** c.dzk)]} })

\* Lines 1184-1187: U1(n*6 + 0 .. 3) = X, bxconst, Y, byconst.
tw_store(U1, n, t) ==
    [j \in 1 .. Len(U1) |->
        IF j = 6 * (n - 1) + 1 THEN t.X
        ELSE IF j = 6 * (n - 1) + 2 THEN t.bxconst
        ELSE IF j = 6 * (n - 1) + 3 THEN t.Y
        ELSE IF j = 6 * (n - 1) + 4 THEN t.byconst
        ELSE U1[j]]

----------------------------------------------------------------------------
(* track_und_weave (lines 854-1022).                                       *)

\* Lines 878-890: the C function fields, the undulator field at (x, y, z).
weave_fields(x, y, z, kx, ky, kz, B0) ==
    LET k1    == (Neg(B0) ** kx) // ky
        k2    == (Neg(B0) ** kz) // ky
        kx_x  == Angle(kx ** x)
        ky_y  == (ky ** y) ** Rat(11, 7)
        kz_z  == Angle(kz ** z)
    IN  <<((k1 ** Sin(kx_x)) ** Sinh(ky_y)) ** Cos(kz_z),
          ((B0 ** Cos(kx_x)) ** Cosh(ky_y)) ** Cos(kz_z),
          ((k2 ** Cos(kx_x)) ** Sinh(ky_y)) ** Sin(kz_z)>>

\* Lines 892-901: the C function moments.
weave_moments(bx, by, Bx, By, Bz, dzk) ==
    LET bx2 == bx ** bx
        by2 == by ** by
        bxy == bx ** by
        k   == Sqrt((One ++ bx2) ++ by2) ** dzk
    IN  <<k ** (((by ** Bz) -- (By ** (One ++ bx2))) ++ (bxy ** Bx)),
          Neg(k) ** (((bx ** Bz) -- (Bx ** (One ++ by2))) ++ (bxy ** By))>>

\* Lines 856-872: the array q passed to the C code; Q1(j) is q[j + 1] and
\* Q1(12) is gamma*(1 + y0[5]).
track_und_weave_q(y0, z, kz, kx, Kx, energy) ==
    LET gamma == energy // m_e_GeV
        c     == speed_of_light
        m0    == m_e_eV
        B0    == ((Kx ** m0) ** kz) // c
        ky    == Sqrt((kz ** kz) -- (kx ** kx))
        h     == z[2] -- z[1]
    IN  <<y0[1], y0[2], y0[3], y0[4], y0[5], y0[6], kx, ky, kz, h,
          Num(Len(z)), B0, gamma ** (One ++ y0[6])>>

\* Lines 906-954: the scalars the C code derives from q, and u after the
\* first sample is stored.
track_und_weave_init(q) ==
    LET px      == q[2]
        py      == q[4]
        gamma   == q[13]
        dGamma2 == One -- (Rat(1, 2) // (gamma ** gamma))
        pz      == dGamma2 -- (((px ** px) ++ (py ** py)) // Num(2))
        k       == speed_of_light // ((m_e_eV ** One) ** gamma)
        N       == q[11][1]
    IN  [kx |-> q[7], ky |-> q[8], kz |-> q[9], dz |-> q[10], N |-> N,
         B0 |-> q[12], dGamma2 |-> dGamma2, dzk |-> q[10] ** k,
         U1 |-> [j \in 1 .. (6 * N) |->
                   IF j \in 1 .. 4 THEN q[j] ELSE IF j = 6 THEN pz ELSE Zero]]

\* One stage of the C loop: kx_n = bx*dz, ky_n = by*dz, the field at
\* (x, y, z) and the moments mx_n, my_n.
track_und_weave_stage(c, x, y, z, bx, by) ==
    Only({ [kx |-> bx ** c.dz, ky |-> by ** c.dz, mx |-> m[1], my |-> m[2]]
           : m \in {Only({ weave_moments(bx, by, B[1], B[2], B[3], c.dzk)
                           : B \in {weave_fields(x, y, z, c.kx, c.ky, c.kz,
                                                c.B0)} })} })

\* Lines 995-1001: the sample i + 1 from the four stages.
track_und_weave_store(U1, i, c, g1, g2, g3, g4) ==
    Only({ [j \in DOMAIN U1 |->
              IF j = (i + 1) * 6 + 1
                  THEN U1[i * 6 + 1] ++ (Rat(1, 6)
                         ** (((g1.kx ++ (Num(2) ** g2.kx)) ++ (Num(2) ** g3.kx))
                                ++ g4.kx))
              ELSE IF j = (i + 1) * 6 + 2 THEN bx1
              ELSE IF j = (i + 1) * 6 + 3
                  THEN U1[i * 6 + 3] ++ (Rat(1, 6)
                         ** (((g1.ky ++ (Num(2) ** g2.ky)) ++ (Num(2) ** g3.ky))
                                ++ g4.ky))
              ELSE IF j = (i + 1) * 6 + 4 THEN by1
              ELSE IF j = (i + 1) * 6 + 5 THEN U1[i * 6 + 5] ++ c.dz
              ELSE IF j = (i + 1) * 6 + 6
                  THEN c.dGamma2 -- (((bx1 ** bx1) ++ (by1 ** by1)) // Num(2))
              ELSE U1[j]]
           : bx1 \in {U1[i * 6 + 2] ++ (Rat(1, 6)
                        ** (((g1.mx ++ (Num(2) ** g2.mx)) ++ (Num(2) ** g3.mx))
                               ++ g4.mx))},
             by1 \in {U1[i * 6 + 4] ++ (Rat(1, 6)
                        ** (((g1.my ++ (Num(2) ** g2.my)) ++ (Num(2) ** g3.my))
                               ++ g4.my))} })

\* Lines 959-1001: pass i of the C loop.
track_und_weave_step(U1, i, c) ==
    LET X       == U1[i * 6 + 1]
        Y       == U1[i * 6 + 3]
        Z       == U1[i * 6 + 5]
        bxconst == U1[i * 6 + 2]
        byconst == U1[i * 6 + 4]
    IN  Only({ Only({ Only({ Only({
            track_und_weave_store(U1, i, c, g1, g2, g3, g4)
        : g4 \in {track_und_weave_stage(c, X ++ g3.kx, Y ++ g3.ky, Z ++ c.dz,
                                        bxconst ++ g3.mx, byconst ++ g3.my)} })
        : g3 \in {track_und_weave_stage(c, X ++ (g2.kx // Num(2)),
                                        Y ++ (g2.ky // Num(2)),
                                        Z ++ (c.dz // Num(2)),
                                        bxconst ++ (g2.mx // Num(2)),
                                        byconst ++ (g2.my // Num(2)))} })
        : g2 \in {track_und_weave_stage(c, X ++ (g1.kx // Num(2)),
                                        Y ++ (g1.ky // Num(2)),
                                        Z ++ (c.dz // Num(2)),
                                        bxconst ++ (g1.mx // Num(2)),
                                        byconst ++ (g1.my // Num(2)))} })
        : g1 \in {track_und_weave_stage(c, X, Y, Z, bxconst, byconst)} })

RECURSIVE track_und_weave_loop(_, _, _)
\* for(i = 0; i < N-1; i++)
track_und_weave_loop(U1, i, c) ==
    IF i < c.N - 1
    THEN track_und_weave_loop(track_und_weave_step(U1, i, c), i + 1, c)
    ELSE U1

\* Lines 1013-1022: x, px, y, py, z, pz = u[::6], u[1::6], u[2::6], u[3::6],
\* u[4::6], u[5::6].
track_und_weave(y0, z, kz, kx, Kx, energy) ==
    Only({ Only({ [c |-> [x \in (DOMAIN c) \ {"U1"} |-> c[x]],
                   u |-> u,
                   ret |-> [r \in 1 .. 6 |->
                              [j \in 1 .. c.N |-> u[(j - 1) * 6 + r]]]]
                  : u \in {track_und_weave_loop(c.U1, 0, c)} })
           : c \in {track_und_weave_init(
                        track_und_weave_q(y0, z, kz, kx, Kx, energy))} })

----------------------------------------------------------------------------
(* Matrix.__init__ of src/ocelot/cpbd/elements.py.  A keyword is a         *)
(* sequence of one-character strings; r and t are the numpy arrays, a      *)
(* function of 0-based index tuples.                                       *)

Digits == <<"0", "1", "2", "3", "4", "5", "6", "7", "8", "9">>

\* str.lower() of one character.
lower(c) ==
    CASE c = "R" -> "r"
      [] c = "T" -> "t"
      [] c = "B" -> "b"
      [] c = "M" -> "m"
      [] OTHER -> c

\* y[k:], k counted from 0.
From(y, k) == SubSeq(y, k + 1, Len(y))

\* str.isdigit(): not empty and every character a digit.
isdigit(s) ==
    Len(s) > 0 /\ \A i \in DOMAIN s : \E d \in DOMAIN Digits : Digits[d] = s[i]

DigitOf(c) == (CHOOSE d \in DOMAIN Digits : Digits[d] = c) - 1

\* int(s) of a string of digits.
RECURSIVE int(_)
int(s) ==
    IF Len(s) = 0 THEN 0
    ELSE 10 * int(SubSeq(s, 1, Len(s) - 1)) + DigitOf(s[Len(s)])

\* numpy indexing of an axis of length 6: -6 .. 5 are valid, a negative
\* index counts from the end, anything else raises IndexError.
InAxis(i) == i \in -6 .. 5

Wrap(i) == i % 6

\* np.zeros((6, 6)), np.zeros((6, 6, 6)), np.zeros((6, 1))
Matrix_zeros ==
    [r |-> [ij \in (0 .. 5) \X (0 .. 5) |-> Zero],
     t |-> [ijk \in (0 .. 5) \X (0 .. 5) \X (0 .. 5) |-> Zero],
     b |-> [i \in 0 .. 5 |-> Zero],
     raised |-> FALSE]

\* self.r[i, j] = v
Matrix_set_r(m, i, j, v) ==
    IF m.raised THEN m
    ELSE IF InAxis(i) /\ InAxis(j)
         THEN [m EXCEPT !.r[<<Wrap(i), Wrap(j)>>] = v]
         ELSE [m EXCEPT !.raised = TRUE]

\* self.t[i, j, k] = v
Matrix_set_t(m, i, j, k, v) ==
    IF m.raised THEN m
    ELSE IF InAxis(i) /\ InAxis(j) /\ InAxis(k)
         THEN [m EXCEPT !.t[<<Wrap(i), Wrap(j), Wrap(k)>>] = v]
         ELSE [m EXCEPT !.raised = TRUE]

\* self.b[i, 0] = v
Matrix_set_b(m, i, v) ==
    IF m.raised THEN m
    ELSE IF InAxis(i)
         THEN [m EXCEPT !.b[Wrap(i)] = v]
         ELSE [m EXCEPT !.raised = TRUE]

\* Lines 412-414: rmXY.
Matrix_rm(m, y, v) ==
    IF /\ lower(y[1]) = "r" /\ Len(y) > 2
       /\ lower(y[2]) = "m" /\ Len(y) = 4 /\ isdigit(From(y, 2))
       /\ 11 <= int(From(y, 2)) /\ int(From(y, 2)) <= 66
    THEN Matrix_set_r(m, DigitOf(y[3]) - 1, DigitOf(y[4]) - 1, v)
    ELSE m

\* Lines 412, 415-416: rXY.
Matrix_r(m, y, v) ==
    IF /\ lower(y[1]) = "r" /\ Len(y) > 2
       /\ Len(y) = 3 /\ isdigit(From(y, 1))
       /\ 11 <= int(From(y, 1)) /\ int(From(y, 1)) <= 66
    THEN Matrix_set_r(m, DigitOf(y[2]) - 1, DigitOf(y[3]) - 1, v)
    ELSE m

\* Lines 419-420: tXYZ.
Matrix_t(m, y, v) ==
    IF /\ lower(y[1]) = "t" /\ Len(y) = 4 /\ isdigit(From(y, 1))
       /\ 111 <= int(From(y, 1)) /\ int(From(y, 1)) <= 666
    THEN Matrix_set_t(m, DigitOf(y[2]) - 1, DigitOf(y[3]) - 1,
                      DigitOf(y[4]) - 1, v)
    ELSE m

\* Lines 423-424: bX.
Matrix_b(m, y, v) ==
    IF /\ lower(y[1]) = "b" /\ Len(y) = 2 /\ isdigit(From(y, 1))
       /\ 1 <= int(From(y, 1)) /\ int(From(y, 1)) <= 6
    THEN Matrix_set_b(m, DigitOf(y[2]) - 1, v)
    ELSE m

\* Lines 410-424: the body of the loop for one keyword y with value v.
Matrix_decode(m, y, v) ==
    Matrix_b(Matrix_t(Matrix_r(Matrix_rm(m, y, v), y, v), y, v), y, v)

\* Lines 410-424: for y in kwargs, in the order of the keywords; an
\* IndexError leaves the loop and the constructor.
RECURSIVE Matrix_loop(_, _, _)
Matrix_loop(m, kwargs, n) ==
    IF n > Len(kwargs) \/ m.raised THEN m
    ELSE Matrix_loop(Matrix_decode(m, kwargs[n].key, kwargs[n].val), kwargs, n + 1)

\* Matrix(**kwargs), lines 401-425.
Matrix_init(kwargs) == Matrix_loop(Matrix_zeros, kwargs, 1)

----------------------------------------------------------------------------
(* SaveOptParams (src/utils/mint/xfel_interface.py): save and send_to_db.  *)
(* A snapshot data_base is modelled by its flag and its timestamp; the     *)
(* device readings it also carries do not influence the control flow.      *)

\* Lines 24-29: the fields data and wasSaved after __init__.
SaveOptParams_init == [data |-> <<>>, wasSaved |-> FALSE]

\* Lines 70-127: send_to_db reads self.data[0] and self.data[1] (line 74
\* first); with fewer than two snapshots it raises IndexError, otherwise it
\* returns True.
send_to_db(data) ==
    IF Len(data) < 2 THEN [raised |-> "IndexError", ret |-> FALSE]
    ELSE [raised |-> "none", ret |-> TRUE]

\* Lines 130-169: save(args, time, niter, flag).  sent lists the data of the
\* send_to_db invocations of the call.  An exception raised by send_to_db
\* leaves save at line 166: data keeps the appended snapshot and wasSaved
\* its value.
save(self, time, flag) ==
    LET data_base == [flag |-> flag, timestamp |-> time]
        data1 == Append(self.data, data_base)
        r == send_to_db(data1)
    IN  IF flag = "start"
        THEN [data |-> <<data_base>>, wasSaved |-> self.wasSaved,
              sent |-> <<>>, raised |-> "none", ret |-> TRUE]
        ELSE IF r.raised # "none"
        THEN [data |-> data1, wasSaved |-> self.wasSaved,
              sent |-> <<data1>>, raised |-> r.raised, ret |-> FALSE]
        ELSE [data |-> <<>>, wasSaved |-> r.ret,
              sent |-> <<data1>>, raised |-> "none", ret |-> r.ret]

----------------------------------------------------------------------------
(* The state: the result of the last call of each function.                *)

VARIABLES
    tn,     \* t_nnn: its arguments and what it returned
    ent,    \* fringe_ent: its arguments and what it returned
    ext,    \* fringe_ext: its arguments and what it returned
    sm,     \* sym_map: its arguments, its locals and the caller's array X
    rk,     \* rk_track_in_field / rk_field: arguments, locals, the array y0
    tw,     \* track_und_weave_openmp: the array u, the shared sq, the threads
    mx,     \* Matrix.__init__: the keywords and the arrays r, t, b
    vl,     \* H23, verlet, verlet1O: the arguments, the list vec_x, the result
    sc,     \* scipy_track_in_field: a call of func by the solver
    uw,     \* the call of track_und_weave
    so      \* the SaveOptParams object and its save calls

vars == <<tn, ent, ext, sm, rk, tw, mx, vl, sc, uw, so>>

\* Bounds of the inputs.
MaxL == 2

MaxZ == 16

MaxN == 2

MaxRkN == 3

\* The save calls made on one SaveOptParams object.
MaxSaves == 4

LValues == {Num(n) : n \in 0 .. MaxL}

HValues == {Zero, One}

K1Values == {Num(-1), Rat(-1, 5), Zero, One}

K2Values == {Zero, One}

\* Pole angles 0, 1 rad and pi/2.
EValues == {<<Zero, 0>>, <<One, 0>>, <<Zero, 1>>}

EdgeK1Values == {Zero, One}

HPoleValues == {Zero, One}

GapValues == {Zero, One}

FintValues == {Zero, Rat(1, 2)}

\* Segment lengths -0.001, 0, 0.001, ..., in units of 0.001.
ZValues == {Num(n) : n \in -1 .. MaxZ}

EnergyValues == {Zero, One, Rat(5, 3)}

\* One particle: x, px, y, py, sigma, ps.
AtRest == <<Zero, Zero, Zero, Zero, Zero, Zero>>

ParticleValues ==
    { AtRest,
      <<One, One, One, One, Zero, Zero>>,
      <<Zero, Zero, Zero, Zero, One, One>> }

RECURSIVE Ensembles(_)
Ensembles(n) ==
    IF n = 0 THEN {<<>>}
    ELSE {e \o p : e \in Ensembles(n - 1), p \in ParticleValues}

XValues == UNION {Ensembles(n) : n \in 1 .. MaxN}

\* The ensembles tracked through a segment: every ensemble when the segment
\* is one step long, the particle at rest when it is longer (the exact
\* coordinates of a moving particle outgrow the integers within two steps).
XValuesFor(z, h, k1, k2) ==
    LET step0 == sym_map_step0(z, h, k1, k2)
    IN  IF IsZero(step0) \/ sym_map_n(z, step0) <= 2 THEN XValues ELSE {AtRest}

NotCalled == [called |-> FALSE]

\* The two edges of one magnet: the second edge map is computed for the
\* magnet (h, k1, gap) of the first, with its own e, h_pole and fint.
EdgeH(other) == IF other.called THEN {other.h} ELSE HValues

EdgeK1(other) == IF other.called THEN {other.k1} ELSE EdgeK1Values

EdgeGap(other) == IF other.called THEN {other.gap} ELSE GapValues

SmIdle == [pc |-> "idle"]

RkIdle == [pc |-> "idle"]

RkFuncs == {"rk_track_in_field", "rk_field"}

FieldValues == {"zero", "solenoid", "pole", "dipole", "fringe"}

RkLValues == {One, Num(2)}

\* Numbers of sample points: linspace(0., l, num=N) and z[1] need N >= 2.
RkNValues == 2 .. MaxRkN

\* Energies with gamma > 0.
RkEnergyValues == {One, Num(2)}

RECURSIVE EnsemblesOf(_, _)
EnsemblesOf(P, n) ==
    IF n = 0 THEN {<<>>}
    ELSE {e \o p : e \in EnsemblesOf(P, n - 1), p \in P}

\* The ensembles tracked through a field: every particle where there is no
\* field, particles without transverse slope in a longitudinal field (the
\* slopes of a particle that the field deflects are not rational).
RkParticlesFor(field) ==
    IF field = "zero" THEN ParticleValues
    ELSE {AtRest, <<Zero, Zero, Zero, Zero, One, One>>,
          <<One, Zero, One, Zero, One, One>>}

RkY0ValuesFor(field) ==
    UNION {EnsemblesOf(RkParticlesFor(field), n) : n \in 1 .. MaxN}

\* A deflecting field is tracked over one step of length 1: the exact
\* slopes of a deflected particle outgrow the integers within two steps.
RkTracked(field, l, N) ==
    field \in {"dipole", "fringe"} => (l = One /\ N = 2)

TwIdle == [pc |-> "idle"]

\* Particles on the axis of the undulator plane y = 0, with slopes bx = 0
\* and bx = 3/4 (sqrt(1 + bx*bx) = 1 and 5/4).
TwParticleValues == {AtRest, <<Zero, Rat(3, 4), Zero, Zero, Zero, One>>}

TwU0Values == UNION {EnsemblesOf(TwParticleValues, n) : n \in {1, 2}}

\* One step of length 1 over half a period: kz = 2 quarter turns per unit
\* length, so that cos(kz*z) is 1, 0, -1 at the three points of the step.
TwLValues == {One}

TwNValues == {2}

TwKzValues == {Num(2)}

TwKxValues == {Zero}

\* The undulator parameter: no field, or a field.
TwKValues == {Zero, One}

TwEnergyValues == {One}

\* The keywords of Matrix(**kwargs): a head character and two or three
\* further characters, digits inside and outside 1..6 and non-digits.
KeyHeads == {"r", "R", "t", "T", "b"}

KeyChars == {"0", "1", "6", "7", "m", "x"}

KeyValues ==
    {<<a, c>> : a \in KeyHeads, c \in KeyChars}
        \cup {<<a, c, d>> : a \in KeyHeads, c \in KeyChars, d \in KeyChars}
        \cup {<<a, c, d, e>> : a \in KeyHeads, c \in KeyChars, d \in KeyChars,
                               e \in KeyChars}

\* float(kwargs[y])
KwargValues == {One}

\* Two keywords in one call.
KeyPairs ==
    {<<"r", "1", "6">>, <<"R", "6", "0">>, <<"t", "1", "1", "7">>,
     <<"T", "6", "1", "1">>, <<"b", "6">>}

KwargsValues ==
    {<<[key |-> y, val |-> v]>> : y \in KeyValues, v \in KwargValues}
        \cup {<<[key |-> p[1], val |-> v], [key |-> p[2], val |-> v]>> :
                 p \in {q \in KeyPairs \X KeyPairs : q[1] # q[2]},
                 v \in KwargValues}

Init ==
    /\ tn = NotCalled
    /\ ent = NotCalled
    /\ ext = NotCalled
    /\ sm = SmIdle
    /\ rk = RkIdle
    /\ tw = TwIdle
    /\ mx = NotCalled
    /\ vl = NotCalled
    /\ sc = NotCalled
    /\ uw = NotCalled
    /\ so = NotCalled

\* T = t_nnn(L, h, k1, k2)
T_nnn ==
    /\ ~tn.called /\ ~ent.called /\ ~ext.called /\ sm.pc = "idle"
    /\ rk.pc = "idle" /\ tw.pc = "idle" /\ ~mx.called /\ ~vl.called /\ ~sc.called /\ ~uw.called /\ ~so.called
    /\ \E L \in LValues, h \in HValues, k1 \in K1Values, k2 \in K2Values :
          \E r \in {t_nnn(L, h, k1, k2)} :
              tn' = [called |-> TRUE, L |-> L, h |-> h, k1 |-> k1, k2 |-> k2,
                     T |-> r.T, kxform |-> r.kxform, cross |-> r.cross,
                     tail |-> r.tail, divisors |-> r.divisors]
    /\ UNCHANGED <<ent, ext, sm, rk, tw, mx, vl, sc, uw, so>>

\* R, T = fringe_ent(h, k1, e, h_pole, gap, fint)
FringeEnt ==
    /\ ~tn.called /\ ~ent.called /\ sm.pc = "idle" /\ rk.pc = "idle" /\ tw.pc = "idle" /\ ~mx.called /\ ~vl.called /\ ~sc.called /\ ~uw.called /\ ~so.called
    /\ \E h \in EdgeH(ext), k1 \in EdgeK1(ext), e \in EValues,
          h_pole \in HPoleValues, gap \in EdgeGap(ext), fint \in FintValues :
          \E r \in {fringe_ent(h, k1, e, h_pole, gap, fint)} :
              ent' = [called |-> TRUE, h |-> h, k1 |-> k1, e |-> e,
                      h_pole |-> h_pole, gap |-> gap, fint |-> fint,
                      R |-> r.R, T |-> r.T, phi |-> r.phi, raised |-> r.raised]
    /\ UNCHANGED <<tn, ext, sm, rk, tw, mx, vl, sc, uw, so>>

\* R, T = fringe_ext(h, k1, e, h_pole, gap, fint)
FringeExt ==
    /\ ~tn.called /\ ~ext.called /\ sm.pc = "idle" /\ rk.pc = "idle" /\ tw.pc = "idle" /\ ~mx.called /\ ~vl.called /\ ~sc.called /\ ~uw.called /\ ~so.called
    /\ \E h \in EdgeH(ent), k1 \in EdgeK1(ent), e \in EValues,
          h_pole \in HPoleValues, gap \in EdgeGap(ent), fint \in FintValues :
          \E r \in {fringe_ext(h, k1, e, h_pole, gap, fint)} :
              ext' = [called |-> TRUE, h |-> h, k1 |-> k1, e |-> e,
                      h_pole |-> h_pole, gap |-> gap, fint |-> fint,
                      R |-> r.R, T |-> r.T, phi |-> r.phi, raised |-> r.raised]
    /\ UNCHANGED <<tn, ent, sm, rk, tw, mx, vl, sc, uw, so>>

\* sym_map(z, X, h, k1, k2, energy), lines 584-614: up to the loop.
SymMapCall ==
    /\ ~tn.called /\ ~ent.called /\ ~ext.called /\ sm.pc = "idle"
    /\ rk.pc = "idle" /\ tw.pc = "idle" /\ ~mx.called /\ ~vl.called /\ ~sc.called /\ ~uw.called /\ ~so.called
    /\ \E z \in ZValues, h \in HValues, k1 \in EdgeK1Values,
          k2 \in K2Values, energy \in EnergyValues :
       \E X \in XValuesFor(z, h, k1, k2) :
          LET step0 == sym_map_step0(z, h, k1, k2)
              args  == [z |-> z, h |-> h, k1 |-> k1, k2 |-> k2,
                        energy |-> energy, X0 |-> X, X |-> X, step0 |-> step0]
          IN  IF IsZero(step0)
              THEN sm' = [pc |-> "done", ret |-> X, iterations |-> 0] @@ args
              ELSE LET n   == sym_map_n(z, step0)
                       rel == sym_map_rel(energy)
                       ps  == Slice(X, 5)
                   IN  sm' = [pc |-> "loop", n |-> n, i |-> 0,
                              step |-> sym_map_step(z, n),
                              g_inv |-> rel.g_inv, beta |-> rel.beta,
                              q |-> [p \in 1 .. (Len(X) \div 6) |->
                                       [x |-> Slice(X, 0)[p], px |-> Slice(X, 1)[p],
                                        y |-> Slice(X, 2)[p], py |-> Slice(X, 3)[p],
                                        sigma |-> Slice(X, 4)[p]]],
                              ps |-> ps,
                              ps_beta |-> [p \in DOMAIN ps |-> ps[p] // rel.beta],
                              c1 |-> (h ** h) ++ k1,
                              c2 |-> (h ** k1) ++ (k2 // Num(2)),
                              c3 |-> (h ** k1) ++ k2,
                              c4 |-> (rel.g_inv ** rel.g_inv)
                                        // (rel.beta ** (One ++ rel.beta))] @@ args
    /\ UNCHANGED <<tn, ent, ext, rk, tw, mx, vl, sc, uw, so>>

\* Lines 617-625: one pass of the loop over z_array, all particles together.
SymMapStep ==
    /\ sm.pc = "loop" /\ sm.i < sm.n - 1
    /\ sm' = [sm EXCEPT
                !.i = @ + 1,
                !.q = [p \in DOMAIN sm.q |->
                         sym_map_iter(sm.q[p], sm.ps_beta[p], sm.step, sm.h,
                                      sm.k1, sm.beta, sm.c1, sm.c2, sm.c3, sm.c4)]]
    /\ UNCHANGED <<tn, ent, ext, rk, tw, mx, vl, sc, uw, so>>

\* Fault model: sigma written to X[5::6] as well.
sym_map_store_ps(X, q) ==
    [j \in 1 .. Len(X) |->
        LET p == ((j - 1) \div 6) + 1
            c == (j - 1) % 6
        IN  IF c = 0 THEN q[p].x
            ELSE IF c = 1 THEN q[p].px
            ELSE IF c = 2 THEN q[p].y
            ELSE IF c = 3 THEN q[p].py
            ELSE q[p].sigma]

\* Fault model: the first particle's coordinates written to every particle.
sym_map_store_first(X, q) ==
    [j \in 1 .. Len(X) |->
        LET c == (j - 1) % 6
        IN  IF c = 0 THEN q[1].x
            ELSE IF c = 1 THEN q[1].px
            ELSE IF c = 2 THEN q[1].y
            ELSE IF c = 3 THEN q[1].py
            ELSE IF c = 4 THEN q[1].sigma
            ELSE X[j]]

\* Lines 627-632: the coordinates are written back into X, which is returned.
sym_map_store(X, q) ==
    [j \in 1 .. Len(X) |->
        LET p == ((j - 1) \div 6) + 1
            c == (j - 1) % 6
        IN  IF c = 0 THEN q[p].x
            ELSE IF c = 1 THEN q[p].px
            ELSE IF c = 2 THEN q[p].y
            ELSE IF c = 3 THEN q[p].py
            ELSE IF c = 4 THEN q[p].sigma
            ELSE X[j]]

SymMapReturn ==
    /\ sm.pc = "loop" /\ sm.i = sm.n - 1
    /\ LET X1 == sym_map_store(sm.X, sm.q)
       IN  sm' = [pc |-> "done", ret |-> X1, iterations |-> sm.i]
                    @@ [sm EXCEPT !.X = X1]
    /\ UNCHANGED <<tn, ent, ext, rk, tw, mx, vl, sc, uw, so>>

\* The field values the four stages of pass i return, over all particles.
rk_track_sampled(u, i, c) ==
    UNION {r.sampled : r \in {rk_track_step(rk_sample(u, i, p), c)
                                : p \in DOMAIN u[0]}}

\* rk_track_in_field(y0, l, N, energy, mag_field), lines 699-720, called
\* directly or by rk_field (line 776).
RkCall ==
    /\ ~tn.called /\ ~ent.called /\ ~ext.called /\ sm.pc = "idle"
    /\ rk.pc = "idle" /\ tw.pc = "idle" /\ ~mx.called /\ ~vl.called /\ ~sc.called /\ ~uw.called /\ ~so.called
    /\ \E func \in RkFuncs, l \in RkLValues, N \in RkNValues,
          energy \in RkEnergyValues, field \in FieldValues :
       \E y0 \in {y \in RkY0ValuesFor(field) : RkTracked(field, l, N)} :
       \E c \in {rk_track_init(y0, l, N, energy)} :
          rk' = [pc |-> "loop", func |-> func, y0_in |-> y0, y0 |-> y0,
                 l |-> l, N |-> N, energy |-> energy, field |-> field,
                 i |-> 0, dz |-> c.dz, dzk |-> c.dzk, dGamma2 |-> c.dGamma2,
                 u |-> c.u, sampled |-> {}, raised |-> "none"]
    /\ UNCHANGED <<tn, ent, ext, sm, tw, mx, vl, sc, uw, so>>

\* Lines 722-766: one pass of the loop.
RkStep ==
    /\ rk.pc = "loop" /\ rk.i < rk.N - 1
    /\ rk' = [rk EXCEPT
                !.i = @ + 1,
                !.u = rk_track_pass(rk.u, rk.i, rk),
                !.sampled = @ \cup rk_track_sampled(rk.u, rk.i, rk)]
    /\ UNCHANGED <<tn, ent, ext, sm, tw, mx, vl, sc, uw, so>>

\* Lines 768-769: the field at the last sample; u is returned.  Lines
\* 777-785: rk_field copies the last sample into y0 and returns y0.
RkReturn ==
    /\ rk.pc = "loop" /\ rk.i = rk.N - 1
    /\ \E u \in {rk_track_last(rk.u, rk.N, rk.field)} :
       \E y1 \in {IF rk.func = "rk_field"
                  THEN rk_field_store(rk.y0, u, rk.N) ELSE rk.y0} :
          rk' = [pc |-> "done",
                 ret |-> IF rk.func = "rk_field" THEN y1 ELSE u]
                   @@ [rk EXCEPT
                         !.u = u,
                         !.y0 = y1,
                         !.sampled = @ \cup {<<u[9 * (rk.N - 1) + 6][p],
                                                 u[9 * (rk.N - 1) + 7][p],
                                                 u[9 * (rk.N - 1) + 8][p]>>
                                               : p \in DOMAIN u[0]}]
    /\ UNCHANGED <<tn, ent, ext, sm, tw, mx, vl, sc, uw, so>>

\* Lines 1028-1040 and 1049-1059: the scalars, the shared sq (declared at
\* line 1059, before the parallel for, with an indeterminate value that no
\* thread reads before writing), and one iteration per particle.
TwCall ==
    /\ ~tn.called /\ ~ent.called /\ ~ext.called /\ sm.pc = "idle"
    /\ rk.pc = "idle" /\ tw.pc = "idle" /\ ~mx.called /\ ~vl.called /\ ~sc.called /\ ~uw.called /\ ~so.called
    /\ \E u \in TwU0Values, l \in TwLValues, N \in TwNValues,
          kz \in TwKzValues, kx \in TwKxValues, Kx \in TwKValues,
          energy \in TwEnergyValues :
          tw' = [pc |-> "par", u0 |-> u, u |-> u,
                 c |-> tw_init(l, N, kz, kx, Kx, energy),
                 sq |-> Zero,
                 th |-> [n \in 1 .. (Len(u) \div 6) |-> tw_thread(u, n)]]
    /\ UNCHANGED <<tn, ent, ext, sm, rk, mx, vl, sc, uw, so>>

\* A thread runs a stage up to "sq = sqrt(1 + bx*bx + by*by)" (lines 1107,
\* 1128, 1149, 1172): it writes the shared sq.
TwSq ==
    /\ tw.pc = "par"
    /\ \E n \in DOMAIN tw.th :
          /\ tw.th[n].ph = "sq"
          /\ \E t \in {tw_stage_sq(tw.th[n], tw.c)} :
                tw' = [tw EXCEPT !.th[n] = t, !.sq = t.wrote]
    /\ UNCHANGED <<tn, ent, ext, sm, rk, mx, vl, sc, uw, so>>

\* "mx = sq*(...)*dzk" (lines 1109, 1129, 1150, 1173): it reads sq.
TwMx ==
    /\ tw.pc = "par"
    /\ \E n \in DOMAIN tw.th :
          /\ tw.th[n].ph = "mx"
          /\ tw' = [tw EXCEPT !.th[n] = tw_stage_mx(tw.th[n], tw.c, tw.sq)]
    /\ UNCHANGED <<tn, ent, ext, sm, rk, mx, vl, sc, uw, so>>

\* "my = -sq*(...)*dzk" (lines 1110, 1130, 1151, 1174): it reads sq again;
\* after the fourth stage, lines 1176-1181.
TwMy ==
    /\ tw.pc = "par"
    /\ \E n \in DOMAIN tw.th :
          /\ tw.th[n].ph = "my"
          /\ tw' = [tw EXCEPT !.th[n] = tw_stage_my(tw.th[n], tw.c, tw.sq)]
    /\ UNCHANGED <<tn, ent, ext, sm, rk, mx, vl, sc, uw, so>>

\* Lines 1184-1187: the thread stores its particle and ends.
TwStore ==
    /\ tw.pc = "par"
    /\ \E n \in DOMAIN tw.th :
          /\ tw.th[n].ph = "store"
          /\ tw' = [tw EXCEPT !.u = tw_store(tw.u, n, tw.th[n]),
                              !.th[n].ph = "done"]
    /\ UNCHANGED <<tn, ent, ext, sm, rk, mx, vl, sc, uw, so>>

\* Line 1196: every iteration has ended, u is returned.
TwReturn ==
    /\ tw.pc = "par"
    /\ \A n \in DOMAIN tw.th : tw.th[n].ph = "done"
    /\ tw' = [pc |-> "done", ret |-> tw.u] @@ tw
    /\ UNCHANGED <<tn, ent, ext, sm, rk, mx, vl, sc, uw, so>>

\* m = Matrix(**kwargs)
MatrixInit ==
    /\ ~tn.called /\ ~ent.called /\ ~ext.called /\ sm.pc = "idle"
    /\ rk.pc = "idle" /\ tw.pc = "idle" /\ ~mx.called /\ ~vl.called /\ ~sc.called /\ ~uw.called /\ ~so.called
    /\ \E kwargs \in KwargsValues :
          \E m \in {Matrix_init(kwargs)} :
              mx' = [called |-> TRUE, kwargs |-> kwargs, r |-> m.r, t |-> m.t,
                     b |-> m.b, raised |-> m.raised]
    /\ UNCHANGED <<tn, ent, ext, sm, rk, tw, vl, sc, uw, so>>

\* The arguments of H23, verlet and verlet1O.
VecXValues == ParticleValues \cup {<<One, Rat(1, 2), Zero, One, Zero, Rat(1, 2)>>}

StepValues == {One, Rat(1, 2)}

\* beta and g_inv as sym_map passes them, among them the defaults 1 and 0.
RelValues == {sym_map_rel(energy) : energy \in EnergyValues}

\* verlet(vec_x, step, h, k1, k2, beta, g_inv) and
\* verlet1O(vec_x, step, h, k1, k2, beta, g_inv)
VerletCall ==
    /\ ~tn.called /\ ~ent.called /\ ~ext.called /\ sm.pc = "idle"
    /\ rk.pc = "idle" /\ tw.pc = "idle" /\ ~mx.called /\ ~vl.called /\ ~sc.called /\ ~uw.called /\ ~so.called
    /\ \E func \in {"verlet", "verlet1O"}, vec_x \in VecXValues,
          step \in StepValues, h \in HValues, k1 \in EdgeK1Values,
          k2 \in K2Values, rel \in RelValues :
          \E r \in {IF func = "verlet"
                    THEN verlet(vec_x, step, h, k1, k2, rel.beta, rel.g_inv)
                    ELSE verlet1O(vec_x, step, h, k1, k2, rel.beta, rel.g_inv)} :
              vl' = [called |-> TRUE, func |-> func, vec_x0 |-> vec_x,
                     step |-> step, h |-> h, k1 |-> k1, k2 |-> k2,
                     beta |-> rel.beta, g_inv |-> rel.g_inv,
                     vec_x |-> r, ret |-> r]
    /\ UNCHANGED <<tn, ent, ext, sm, rk, tw, mx, sc, uw, so>>

\* H23(vec_x, h, k1, k2, beta, g_inv)
H23Call ==
    /\ ~tn.called /\ ~ent.called /\ ~ext.called /\ sm.pc = "idle"
    /\ rk.pc = "idle" /\ tw.pc = "idle" /\ ~mx.called /\ ~vl.called /\ ~sc.called /\ ~uw.called /\ ~so.called
    /\ \E vec_x \in VecXValues, h \in HValues, k1 \in EdgeK1Values,
          k2 \in K2Values, rel \in RelValues :
          vl' = [called |-> TRUE, func |-> "H23", vec_x0 |-> vec_x,
                 step |-> Zero, h |-> h, k1 |-> k1, k2 |-> k2,
                 beta |-> rel.beta, g_inv |-> rel.g_inv,
                 vec_x |-> vec_x,
                 ret |-> H23(vec_x, h, k1, k2, rel.beta, rel.g_inv)]
    /\ UNCHANGED <<tn, ent, ext, sm, rk, tw, mx, sc, uw, so>>

\* The states X, bx, Y, by of one particle that the solver passes to func.
ScParticleValues ==
    {<<Zero, Zero, Zero, Zero>>, <<One, Rat(3, 4), Zero, Zero>>,
     <<Zero, Zero, One, Rat(3, 4)>>, <<One, One, One, One>>,
     <<Rat(1, 2), Rat(1, 2), One, Zero>>}

\* y of func: the blocks X, bx, Y, by of one or two particles.
ScYValues ==
    {<<a[1], a[2], a[3], a[4]>> : a \in ScParticleValues}
        \cup {<<a[1], b[1], a[2], b[2], a[3], b[3], a[4], b[4]>> :
                 a \in ScParticleValues, b \in ScParticleValues}

ScZValues == {Zero, Rat(1, 2)}

ScFieldValues == {"zero", "solenoid", "dipole", "fringe", "skew"}

\* odeint calls func(y, z, mag_field) at a state y and a position z of its
\* choice.
ScipyFunc ==
    /\ ~tn.called /\ ~ent.called /\ ~ext.called /\ sm.pc = "idle"
    /\ rk.pc = "idle" /\ tw.pc = "idle" /\ ~mx.called /\ ~vl.called
    /\ ~sc.called /\ ~uw.called /\ ~so.called
    /\ \E y \in ScYValues, z \in ScZValues, fields \in ScFieldValues,
          energy \in RkEnergyValues :
          sc' = [called |-> TRUE, y |-> y, z |-> z, fields |-> fields,
                 energy |-> energy, ret |-> scipy_func(y, z, fields, energy)]
    /\ UNCHANGED <<tn, ent, ext, sm, rk, tw, mx, vl, uw, so>>

\* The particles of track_und_weave: those of TwParticleValues (momentum
\* deviation 0 at rest, 1 with slope 3/4) and the slope 3/4 without momentum
\* deviation.
UwY0Values ==
    TwParticleValues \cup {<<Zero, Rat(3, 4), Zero, Zero, Zero, Zero>>}

\* z = linspace(0, 1, 2): one step of length 1.
UwZValues == {<<Zero, One>>}

\* x, px, y, py, z, pz = track_und_weave(y0, z, kz, kx, Kx, energy)
TrackUndWeave ==
    /\ ~tn.called /\ ~ent.called /\ ~ext.called /\ sm.pc = "idle"
    /\ rk.pc = "idle" /\ tw.pc = "idle" /\ ~mx.called /\ ~vl.called
    /\ ~sc.called /\ ~uw.called /\ ~so.called
    /\ \E y0 \in UwY0Values, z \in UwZValues, kz \in TwKzValues,
          kx \in TwKxValues, Kx \in TwKValues, energy \in TwEnergyValues :
          \E r \in {track_und_weave(y0, z, kz, kx, Kx, energy)} :
              uw' = [called |-> TRUE, y0 |-> y0, z |-> z, kz |-> kz,
                     kx |-> kx, Kx |-> Kx, energy |-> energy, c |-> r.c,
                     u |-> r.u, ret |-> r.ret]
    /\ UNCHANGED <<tn, ent, ext, sm, rk, tw, mx, vl, sc, so>>

\* The flags of save: the default "start" and the flag of a later snapshot.
FlagValues == {"start", "end"}

\* s = SaveOptParams(mi, dp, lat)
SaveOptParamsNew ==
    /\ ~tn.called /\ ~ent.called /\ ~ext.called /\ sm.pc = "idle"
    /\ rk.pc = "idle" /\ tw.pc = "idle" /\ ~mx.called /\ ~vl.called
    /\ ~sc.called /\ ~uw.called /\ ~so.called
    /\ so' = [called |-> TRUE, saves |-> 0, flag |-> "none", time |-> 0,
              sent |-> <<>>, raised |-> "none", ret |-> FALSE]
                 @@ SaveOptParams_init
    /\ UNCHANGED <<tn, ent, ext, sm, rk, tw, mx, vl, sc, uw>>

\* s.save(args, time, niter, flag): the timestamp is the number of the call.
Save ==
    /\ so.called /\ so.saves < MaxSaves
    /\ \E flag \in FlagValues :
          \E r \in {save(so, so.saves + 1, flag)} :
              so' = [called |-> TRUE, saves |-> so.saves + 1, flag |-> flag,
                     time |-> so.saves + 1, sent |-> r.sent,
                     raised |-> r.raised, ret |-> r.ret,
                     data |-> r.data, wasSaved |-> r.wasSaved]
    /\ UNCHANGED <<tn, ent, ext, sm, rk, tw, mx, vl, sc, uw>>

Next ==
    \/ T_nnn
    \/ FringeEnt
    \/ FringeExt
    \/ SymMapCall
    \/ SymMapStep
    \/ SymMapReturn
    \/ RkCall
    \/ RkStep
    \/ RkReturn
    \/ TwCall
    \/ TwSq
    \/ TwMx
    \/ TwMy
    \/ TwStore
    \/ TwReturn
    \/ MatrixInit
    \/ VerletCall
    \/ H23Call
    \/ ScipyFunc
    \/ TrackUndWeave
    \/ SaveOptParamsNew
    \/ Save

Spec == Init /\ [][Next]_vars

----------------------------------------------------------------------------
(* Properties of t_nnn.                                                    *)

TensorIdx == Idx \X Idx \X Idx

\* t_nnn has been called for a drift: h = k1 = k2 = 0.
DriftCall == tn.called /\ IsZero(tn.h) /\ IsZero(tn.k1) /\ IsZero(tn.k2)

\* C1: for h = k1 = k2 = 0 and any L, every entry of the tensor returned by
\* t_nnn is zero except T[4,1,1] = T[4,3,3] = L/2.
C1_DriftLimit ==
    DriftCall =>
        \A t \in TensorIdx :
            tn.T[t] = IF t \in {<<4, 1, 1>>, <<4, 3, 3>>}
                      THEN tn.L // Num(2) ELSE Zero

C1_Witness ==
    /\ DriftCall
    /\ tn.L = Num(2)
    /\ tn.T[<<4, 1, 1>>] = One
    /\ tn.T[<<4, 3, 3>>] = One

\* C2: for every (L, h, k1, k2), no expression t_nnn evaluates divides by
\* zero, those divided by denom = kx2 - 4*ky2 included.
C2_NoZeroDivisor ==
    tn.called => \A d \in tn.divisors : ~IsZero(d[2])

\* C3: with h = k1 = k2 = 0 every guarded expression and every
\* if / elif / else chain of t_nnn selects its polynomial form, and nothing
\* is divided by kx2, ky2, kx4, ky4 or denom.
C3_DriftPolynomial ==
    DriftCall =>
        /\ tn.kxform = "poly"
        /\ tn.cross = "poly"
        /\ tn.tail = "poly"
        /\ tn.divisors = {}

C3_Witness ==
    /\ DriftCall
    /\ tn.L = One
    /\ tn.kxform = "poly" /\ tn.cross = "poly" /\ tn.tail = "poly"
    /\ Cardinality(tn.divisors) = 0

\* The tensors returned so far.
ReturnedT ==
    (IF tn.called THEN {tn.T} ELSE {})
    \cup (IF ent.called THEN {ent.T} ELSE {})
    \cup (IF ext.called THEN {ext.T} ELSE {})

C5_Pattern ==
    {<<i, p[1], p[2]>> :
        i \in {0, 1, 4},
        p \in {<<0, 0>>, <<0, 1>>, <<0, 5>>, <<1, 1>>, <<1, 5>>, <<5, 5>>,
               <<2, 2>>, <<2, 3>>, <<3, 3>>}}
    \cup
    {<<i, p[1], p[2]>> :
        i \in {2, 3},
        p \in {<<0, 2>>, <<0, 3>>, <<1, 2>>, <<1, 3>>, <<2, 5>>, <<3, 5>>}}

\* C5: in all four degeneracy cases and for all parameters, t_nnn leaves T
\* zero outside the documented triples; row 5 and every triple with j = 4
\* or k = 4 stay zero, and every documented triple has j <= k.
C5_FixedPattern ==
    /\ \A t \in C5_Pattern : t[1] # 5 /\ t[2] # 4 /\ t[3] # 4 /\ t[2] <= t[3]
    /\ tn.called => \A t \in TensorIdx : tn.T[t] # Zero => t \in C5_Pattern

C5_Witness ==
    /\ tn.called
    /\ tn.kxform = "kx" /\ tn.cross = "kxky"
    /\ {t \in TensorIdx : tn.T[t] # Zero} = C5_Pattern

----------------------------------------------------------------------------
(* Properties of fringe_ent and fringe_ext.                                *)

MatIdx == Idx \X Idx

RECURSIVE Dot(_, _, _, _, _)
Dot(A, B, i, j, m) ==
    IF m < 0 THEN Zero
    ELSE Dot(A, B, i, j, m - 1) ++ (A[<<i, m>>] ** B[<<m, j>>])

\* dot(A, B) of two 6x6 matrices.
MatMul(A, B) == [p \in MatIdx |-> Dot(A, B, p[1], p[2], 5)]

Transpose(A) == [p \in MatIdx |-> A[<<p[2], p[1]>>]]

AllFinite(A) == \A p \in MatIdx : IsFinite(A[p])

\* S: block-diagonal [[0, 1], [-1, 0]] per plane.
SForm ==
    [p \in MatIdx |->
        IF p \in {<<0, 1>>, <<2, 3>>, <<4, 5>>} THEN One
        ELSE IF p \in {<<1, 0>>, <<3, 2>>, <<5, 4>>} THEN Num(-1)
        ELSE Zero]

Symplectic(R) == MatMul(Transpose(R), MatMul(SForm, R)) = SForm

\* Both edge maps computed with identical parameters and e = 0.
SameEdgesAtZero ==
    /\ ent.called /\ ext.called
    /\ ent.e = <<Zero, 0>> /\ ext.e = ent.e
    /\ ext.h = ent.h /\ ext.k1 = ent.k1 /\ ext.h_pole = ent.h_pole
    /\ ext.gap = ent.gap /\ ext.fint = ent.fint

\* C6 as stated: for identical parameters and e = 0 the product of the
\* linear matrix of fringe_ext with that of fringe_ent is the identity, for
\* every h, gap and fint.
C6_ComposeIdentity ==
    SameEdgesAtZero => MatMul(ext.R, ent.R) = Identity

\* C6 amended: for identical parameters and e = 0 the product is the
\* identity except for the entry [3,2] = 2*h*tan(phi), phi = fint*h*gap; it
\* is the identity when h, gap or fint is zero.
C6_ComposePhi ==
    SameEdgesAtZero =>
        /\ MatMul(ext.R, ent.R)
             = Matrix(<<3, 2>> :> ((Num(2) ** ent.h)
                         ** Tan(<<(ent.fint ** ent.h) ** ent.gap, 0>>)))
        /\ (IsZero(ent.h) \/ IsZero(ent.gap) \/ IsZero(ent.fint))
              => MatMul(ext.R, ent.R) = Identity

C6_Witness ==
    /\ SameEdgesAtZero
    /\ ent.h = One /\ ent.gap = One /\ ent.fint = Rat(1, 2)
    /\ MatMul(ext.R, ent.R)[<<3, 2>>] = Rat(23, 21)

\* phi = fint*h*gap*sec(e)*(1 + sin(e)^2) of one call.
EdgePhi(x) ==
    (((x.fint ** x.h) ** x.gap) ** (One // Cos(x.e)))
        ** (One ++ (Sin(x.e) ** Sin(x.e)))

EdgeMatrixAsDocumented(x) ==
    /\ x.R = [p \in MatIdx |->
                IF p = <<1, 0>> THEN x.h ** Tan(x.e)
                ELSE IF p = <<3, 2>>
                     THEN Neg(x.h ** Tan(AngleSub(x.e, EdgePhi(x))))
                ELSE IF p[1] = p[2] THEN One ELSE Zero]
    /\ (IsZero(x.gap) \/ IsZero(x.fint)) => x.R[<<3, 2>>] = Neg(x.R[<<1, 0>>])

\* C7: for cos(e) # 0, the matrix R returned by fringe_ent and by
\* fringe_ext is the identity except R[1,0] = h*tan(e) and
\* R[3,2] = -h*tan(e - phi), phi = fint*h*gap*sec(e)*(1 + sin(e)^2); with
\* gap = 0 or fint = 0, R[3,2] = -R[1,0].
C7_EdgeMatrix ==
    /\ (ent.called /\ ~IsZero(Cos(ent.e))) => EdgeMatrixAsDocumented(ent)
    /\ (ext.called /\ ~IsZero(Cos(ext.e))) => EdgeMatrixAsDocumented(ext)

C7_Witness ==
    /\ ent.called
    /\ ent.h = One /\ ent.e = <<One, 0>>
    /\ ent.gap = One /\ ent.fint = Rat(1, 2)
    /\ ent.R[<<1, 0>>] = Rat(5, 3)
    /\ IsFinite(ent.R[<<3, 2>>])
    /\ ent.R[<<3, 2>>] # Neg(ent.R[<<1, 0>>])

\* C8: the matrix R returned by fringe_ent and by fringe_ext satisfies
\* transpose(R)*S*R = S, for every finite value of R[1,0] and R[3,2].
C8_Symplectic ==
    /\ (ent.called /\ AllFinite(ent.R)) => Symplectic(ent.R)
    /\ (ext.called /\ AllFinite(ext.R)) => Symplectic(ext.R)

C8_Witness ==
    /\ ext.called
    /\ AllFinite(ext.R)
    /\ ~IsZero(ext.R[<<1, 0>>]) /\ ~IsZero(ext.R[<<3, 2>>])
    /\ ext.R[<<3, 2>>] # Neg(ext.R[<<1, 0>>])
    /\ Symplectic(ext.R)

\* C9: fringe_ent and fringe_ext called with cos(e) = 0 raise
\* InvalidParameter and return no (R, T) with infinite or NaN entries.
C9_FailFast ==
    /\ (ent.called /\ IsZero(Cos(ent.e))) => ent.raised = "InvalidParameter"
    /\ (ext.called /\ IsZero(Cos(ext.e))) => ext.raised = "InvalidParameter"

----------------------------------------------------------------------------
(* Properties of sym_map.                                                  *)

\* sym_map is in its loop over a segment of positive length with a field.
FieldSegment ==
    /\ sm.pc = "loop"
    /\ ~IsZero(sm.h) \/ ~IsZero(sm.k1) \/ ~IsZero(sm.k2)
    /\ Less(Zero, sm.z)

\* min(0.005, z)
MinStep(z) == IF Less(z, step_default) THEN z ELSE step_default

\* C10 as stated: whenever h, k1 or k2 is nonzero and z > 0, every step of
\* the loop has size exactly min(0.005, z), never more than 0.005.
C10_StepIsMin ==
    FieldSegment =>
        /\ sm.step = MinStep(sm.z)
        /\ ~Less(step_default, sm.step)

\* C10 amended: whenever h, k1 or k2 is nonzero and z > 0, the loop takes
\* int(z / min(0.005, z)) equal steps that add up to z; the step is at least
\* min(0.005, z) and less than twice it, and equals min(0.005, z) exactly
\* when z is a whole multiple of it.
C10_StepDividesSegment ==
    FieldSegment =>
        /\ sm.n - 1 = IntOf(sm.z // MinStep(sm.z))
        /\ Num(sm.n - 1) ** sm.step = sm.z
        /\ ~Less(sm.step, MinStep(sm.z))
        /\ Less(sm.step, Num(2) ** MinStep(sm.z))
        /\ (sm.step = MinStep(sm.z))
              <=> (Num(sm.n - 1) ** MinStep(sm.z) = sm.z)

C10_Witness ==
    /\ FieldSegment
    /\ sm.z = Num(6)
    /\ sm.i = 1
    /\ sm.step = Num(6)
    /\ Less(step_default, sm.step)

\* sym_map has been called for a drift of nonzero length and has not
\* returned early.
DriftSegment ==
    /\ sm.pc \in {"loop", "done"}
    /\ IsZero(sm.h) /\ IsZero(sm.k1) /\ IsZero(sm.k2)
    /\ ~IsZero(sm.z)

\* C11: for h = k1 = k2 = 0 and z # 0, sym_map executes its loop exactly
\* once, with a step equal to the whole segment length z.
C11_DriftSingleStep ==
    DriftSegment =>
        /\ sm.n - 1 = 1
        /\ sm.step = sm.z
        /\ sm.i <= 1
        /\ sm.pc = "done" => sm.iterations = 1

C11_Witness ==
    /\ DriftSegment
    /\ sm.pc = "done"
    /\ sm.z = Num(7)
    /\ sm.step = Num(7)
    /\ sm.iterations = 1

\* The six coordinates of particle p of the ensemble X.
Particle(X, p) == SubSeq(X, 6 * (p - 1) + 1, 6 * p)

RECURSIVE Iterate(_, _, _)
\* m passes of the loop body for one particle, k the quantities shared by
\* all particles.
Iterate(q, m, k) ==
    IF m = 0 THEN q
    ELSE Only({ Iterate(r, m - 1, k)
                : r \in {sym_map_iter(q, k.ps_beta, k.step, k.h, k.k1, k.beta,
                                      k.c1, k.c2, k.c3, k.c4)} })

\* sym_map applied to the one particle P alone.
OneParticleRun(P, z, h, k1, k2, energy) ==
    IF IsZero(sym_map_step0(z, h, k1, k2)) THEN P
    ELSE Only({ <<q.x, q.px, q.y, q.py, q.sigma, P[6]>>
                : q \in { Iterate(
                     [x |-> P[1], px |-> P[2], y |-> P[3], py |-> P[4],
                      sigma |-> P[5]],
                     n - 1,
                     [ps_beta |-> P[6] // rel.beta,
                      step |-> sym_map_step(z, n),
                      h |-> h, k1 |-> k1, beta |-> rel.beta,
                      c1 |-> (h ** h) ++ k1,
                      c2 |-> (h ** k1) ++ (k2 // Num(2)),
                      c3 |-> (h ** k1) ++ k2,
                      c4 |-> (rel.g_inv ** rel.g_inv)
                                // (rel.beta ** (One ++ rel.beta))])
                     : n \in {sym_map_n(z, sym_map_step0(z, h, k1, k2))},
                       rel \in {sym_map_rel(energy)} } })

\* C12: no coupling between particles in sym_map: the six output
\* coordinates of particle i are those sym_map computes from particle i's
\* six input coordinates and (z, h, k1, k2, energy) alone, whatever the
\* other particles of the ensemble are.
C12_NoCoupling ==
    sm.pc = "done" =>
        \A p \in 1 .. (Len(sm.X0) \div 6) :
            Particle(sm.ret, p)
                = OneParticleRun(Particle(sm.X0, p), sm.z, sm.h, sm.k1,
                                 sm.k2, sm.energy)

C12_Witness ==
    /\ sm.pc = "done" /\ sm.iterations = 1
    /\ ~IsZero(sm.h) /\ ~IsZero(sm.k1) /\ ~IsZero(sm.k2)
    /\ Len(sm.X0) = 12
    /\ Particle(sm.X0, 1) # Particle(sm.X0, 2)
    /\ Particle(sm.X0, 1) # AtRest /\ Particle(sm.X0, 2) # AtRest
    /\ \A j \in 1 .. 12 : IsFinite(sm.ret[j])
    /\ Particle(sm.ret, 1) # Particle(sm.X0, 1)
    /\ Particle(sm.ret, 2) # Particle(sm.X0, 2)
    /\ Particle(sm.ret, 1) # Particle(sm.ret, 2)

\* The divisors of the next pass of the loop: beta (ps/beta, h*x/beta,
\* px2_py2/(2.*beta)), beta*(1. + beta) (c4) and 1. - step*h*px of every
\* particle.
sym_map_loop_divisors ==
    {sm.beta, sm.beta ** (One ++ sm.beta)}
    \cup {One -- ((sm.step ** sm.h) ** sm.q[p].px) : p \in DOMAIN sm.q}

\* C13: for every finite ensemble and finite (z, h, k1, k2, energy), no step
\* of sym_map divides by zero: neither the x update by 1 - step*h*px nor the
\* relativistic factors.
C13_NoZeroDivisor ==
    (sm.pc = "loop" /\ sm.i < sm.n - 1) =>
        \A d \in sym_map_loop_divisors : IsFinite(d) /\ ~IsZero(d)

----------------------------------------------------------------------------
(* Properties of rk_track_in_field and rk_field.                           *)

\* mag_field has returned a non-finite value at some stage of some step.
RkNonFiniteField ==
    /\ rk.pc \in {"loop", "done"}
    /\ \E B \in rk.sampled : \E b \in 1 .. 3 : ~IsFinite(B[b])

\* C14: when mag_field returns a non-finite value at any stage of any step,
\* rk_track_in_field and rk_field abort with a typed error, and no NaN/Inf
\* is written into the trajectory or into the caller's ensemble.
C14_AbortOnNonFinite ==
    RkNonFiniteField =>
        /\ rk.raised # "none"
        /\ \A row \in DOMAIN rk.u : \A p \in DOMAIN rk.u[row] :
              IsFinite(rk.u[row][p])
        /\ \A j \in DOMAIN rk.y0 : IsFinite(rk.y0[j])

\* The trajectory returned by rk_track_in_field.
RkReturned == rk.pc = "done" /\ rk.func = "rk_track_in_field"

\* Row r of sample i of particle p.
RkRow(i, r, p) == rk.ret[9 * i + r][p]

\* C17: rk_track_in_field returns the dense trajectory: for every sample
\* i in 0 .. N-1 and every particle, rows 9i+0 .. 9i+3 hold position and slope
\* (the coordinates passed in at i = 0; where the field does not deflect the
\* particle, the straight line x + i*dz*x', y + i*dz*y' with the slopes
\* passed in), row 9i+4 holds i*dz, row 9i+5 holds pz of the slopes of that
\* sample, and rows 9i+6 .. 9i+8 hold the field at the (X, Y, Z) of that
\* sample, the last sample N-1 included.
C17_DenseTrajectory ==
    RkReturned =>
        \A i \in 0 .. (rk.N - 1) : \A p \in 1 .. (Len(rk.y0_in) \div 6) :
            /\ i = 0 => \A r \in 0 .. 3 : RkRow(0, r, p) = Particle(rk.y0_in, p)[r + 1]
            /\ rk.field \in {"zero", "solenoid"} =>
                  /\ RkRow(i, 0, p) = Particle(rk.y0_in, p)[1]
                        ++ ((Num(i) ** rk.dz) ** Particle(rk.y0_in, p)[2])
                  /\ RkRow(i, 1, p) = Particle(rk.y0_in, p)[2]
                  /\ RkRow(i, 2, p) = Particle(rk.y0_in, p)[3]
                        ++ ((Num(i) ** rk.dz) ** Particle(rk.y0_in, p)[4])
                  /\ RkRow(i, 3, p) = Particle(rk.y0_in, p)[4]
            /\ RkRow(i, 4, p) = Num(i) ** rk.dz
            /\ RkRow(i, 5, p) = rk.dGamma2
                  -- (((RkRow(i, 1, p) ** RkRow(i, 1, p))
                        ++ (RkRow(i, 3, p) ** RkRow(i, 3, p))) // Num(2))
            /\ <<RkRow(i, 6, p), RkRow(i, 7, p), RkRow(i, 8, p)>>
                  = mag_field(rk.field, RkRow(i, 0, p), RkRow(i, 2, p), RkRow(i, 4, p))

\* A trajectory of three samples in a field that is not zero at the last one.
C17_Witness ==
    /\ RkReturned /\ rk.N = 3 /\ rk.field = "solenoid"
    /\ RkRow(2, 8, 1) = (One ++ RkRow(2, 0, 1)) ++ rk.l
    /\ RkRow(2, 0, 1) = One

\* C18: rk_field returns only the final transverse phase space: for every
\* particle, coordinates 0 .. 3 of the returned array are rows 0 .. 3 of the
\* last trajectory sample N-1, and coordinates 4 and 5 are as passed in.
C18_FinalTransverse ==
    (rk.pc = "done" /\ rk.func = "rk_field") =>
        \A p \in 1 .. (Len(rk.y0_in) \div 6) :
            /\ \A r \in 0 .. 3 :
                  Particle(rk.ret, p)[r + 1] = rk.u[9 * (rk.N - 1) + r][p]
            /\ Particle(rk.ret, p)[5] = Particle(rk.y0_in, p)[5]
            /\ Particle(rk.ret, p)[6] = Particle(rk.y0_in, p)[6]

\* rk_field has moved a particle, whose sigma is not the Z of the last sample.
C18_Witness ==
    /\ rk.pc = "done" /\ rk.func = "rk_field" /\ rk.field = "zero"
    /\ Particle(rk.ret, 1)[1] # Particle(rk.y0_in, 1)[1]
    /\ Particle(rk.ret, 1)[5] # rk.u[9 * (rk.N - 1) + 4][1]
    /\ IsFinite(Particle(rk.ret, 1)[1])

----------------------------------------------------------------------------
(* Continuity of t_nnn across its branches.                                *)

\* A call on a branch boundary: kx2 = k1 + h*h = 0 or ky2 = -k1 = 0.
OnBoundary ==
    tn.called /\ (IsZero(tn.k1 ++ (tn.h ** tn.h)) \/ IsZero(Neg(tn.k1)))

\* The tensor of the neighbouring branch at k1 + e, where kx2 and ky2 are
\* both different from zero.
Neighbour == t_nnn_e(tn.L, tn.h, PlusE(tn.k1), tn.k2)

\* C19: branch continuity of t_nnn.  For a call with k1 on a boundary
\* (kx2 = 0 or ky2 = 0), every entry of the tensor that the neighbouring
\* non-degenerate branch computes at k1 + e converges, for e -> 0, to the
\* entry that the degenerate branch returned.
C19_BranchContinuity ==
    OnBoundary =>
        \A N \in {Neighbour} :
            \A t \in TensorIdx : SLimit(N[t]) = tn.T[t]

----------------------------------------------------------------------------
(* Keywords of Matrix.                                                     *)

\* The digits of a keyword rXY, RXY, rmXY (two) or tXYZ, TXYZ (three);
\* the empty string for any other keyword.
KeyDigits(y) ==
    IF lower(y[1]) = "r" /\ Len(y) = 3 /\ isdigit(From(y, 1)) THEN From(y, 1)
    ELSE IF /\ lower(y[1]) = "r" /\ Len(y) = 4 /\ lower(y[2]) = "m"
            /\ isdigit(From(y, 2)) THEN From(y, 2)
    ELSE IF lower(y[1]) = "t" /\ Len(y) = 4 /\ isdigit(From(y, 1)) THEN From(y, 1)
    ELSE <<>>

AllIn1to6(d) == \A i \in DOMAIN d : DigitOf(d[i]) \in 1 .. 6

\* The index tuples X-1, Y-1 (, Z-1) named by the keywords of the call
\* that have n digits, all of them in 1..6.
Named(n) ==
    {[i \in 1 .. n |-> DigitOf(d[i]) - 1] :
        d \in {e \in {KeyDigits(mx.kwargs[k].key) : k \in DOMAIN mx.kwargs} :
                  Len(e) = n /\ AllIn1to6(e)}}

Written(a) == {i \in DOMAIN a : a[i] # Zero}

\* C20: Matrix.__init__ decodes a keyword rXY / RXY (or tXYZ / TXYZ) only
\* when every digit is in 1..6: the entries of r (of t) written by a call
\* are exactly r[X-1, Y-1] (t[X-1, Y-1, Z-1]) of such keywords, and a
\* keyword with a digit 0, 7, 8 or 9 writes nothing and raises no
\* IndexError.
C20_DigitsChecked ==
    mx.called =>
        /\ ~mx.raised
        /\ Written(mx.r) = Named(2)
        /\ Written(mx.t) = Named(3)

----------------------------------------------------------------------------
(* The caller's array.                                                     *)

\* C16: every operation is pure: when sym_map or rk_field has returned, the
\* ensemble array the caller passed in is as it was at the call, the result
\* being delivered through the return value only.
C16_Pure ==
    /\ sm.pc = "done" => sm.X = sm.X0
    /\ (rk.pc = "done" /\ rk.func = "rk_field") => rk.y0 = rk.y0_in

----------------------------------------------------------------------------
(* Properties of track_und_weave_openmp.                                   *)

\* A stage run without another thread between its write and its reads of sq.
StageAlone(t, c) ==
    Only({ tw_stage_my(m, c, s.wrote)
           : m \in {tw_stage_mx(s, c, s.wrote) : s \in {tw_stage_sq(t, c)}},
             s \in {tw_stage_sq(t, c)} })

\* The iteration of one particle run alone, up to its store.
RECURSIVE TrackedAlone(_, _)
TrackedAlone(t, c) ==
    IF t.ph = "store" THEN t ELSE TrackedAlone(StageAlone(t, c), c)

\* A thread that has written sq and has still to read it.
ReadsSq(n) == tw.th[n].ph \in {"mx", "my"}

\* C15: every variable that a thread writes while stepping its particle is
\* private to that particle's iteration, so the sq a thread reads is the sq
\* it wrote, and in every interleaving the array returned holds, for each
\* particle, the result of tracking that particle alone.
C15_PrivateStepping ==
    /\ tw.pc = "par" =>
          \A n \in DOMAIN tw.th : ReadsSq(n) => tw.sq = tw.th[n].wrote
    /\ tw.pc = "done" =>
          \A n \in DOMAIN tw.th :
              Particle(tw.ret, n)
                  = Particle(tw_store(tw.u0, n,
                                      TrackedAlone(tw_thread(tw.u0, n), tw.c)), n)

----------------------------------------------------------------------------
(* The four degeneracy cases of t_nnn.                                     *)

\* The degeneracy case of (h, k1): which of kx and ky are zero.
DegeneracyCase(h, k1) ==
    <<KxNonZero(k1 ++ (h ** h)), KyNonZero(Neg(k1))>>

\* C21: each of the four degeneracy cases (kx # 0, ky # 0), (kx # 0, ky = 0),
\* (kx = 0, ky # 0), (kx = 0, ky = 0) selects its own closed form of the
\* cross-plane integrals I144 .. I423: the form a call selected is selected
\* by no call of another case.
C21_FourCrossForms ==
    tn.called =>
        \A h \in HValues, k1 \in K1Values :
            DegeneracyCase(h, k1) # DegeneracyCase(tn.h, tn.k1)
                => CrossForm(k1 ++ (h ** h), Neg(k1)) # tn.cross

----------------------------------------------------------------------------
(* sym_map, verlet and H23.                                                *)

\* The particle p of a sym_map call in its loop, as the list verlet takes.
LoopVec(s, p) ==
    <<s.q[p].x, s.q[p].px, s.q[p].y, s.q[p].py, s.q[p].sigma, s.ps[p]>>

Finite(v) == \A i \in DOMAIN v : v[i] # NonFinite

\* C22: sym_map does not substitute the first-order variant: one pass of
\* its loop gives every particle the (x, px, y, py, sigma) that one call of
\* verlet with the same step, h, k1, k2, beta and g_inv gives, the terms in
\* k2, h*k1 and px^2 + py^2 included.
C22_IterationIsVerlet ==
    [][(sm.pc = "loop" /\ sm'.pc = "loop" /\ sm'.i = sm.i + 1) =>
          \A p \in DOMAIN sm.q :
              SubSeq(LoopVec(sm', p), 1, 5)
                  = SubSeq(verlet(LoopVec(sm, p), sm.step, sm.h, sm.k1, sm.k2,
                                  sm.beta, sm.g_inv), 1, 5)]_vars

\* A first pass has run on a moving particle in a magnet with h, k1 and k2,
\* and verlet1O would have given other coordinates.
C22_Witness ==
    /\ sm.pc = "loop" /\ sm.i = 1
    /\ ~IsZero(sm.h) /\ ~IsZero(sm.k1) /\ ~IsZero(sm.k2)
    /\ \E p \in DOMAIN sm.q :
          LET P == Particle(sm.X0, p)
              v == verlet(P, sm.step, sm.h, sm.k1, sm.k2, sm.beta, sm.g_inv)
              w == verlet1O(P, sm.step, sm.h, sm.k1, sm.k2, sm.beta, sm.g_inv)
          IN  /\ ~IsZero(P[2]) /\ ~IsZero(P[4])
              /\ Finite(v) /\ Finite(w)
              /\ LoopVec(sm, p) = v
              /\ v[2] # w[2] /\ v[4] # w[4] /\ v[5] # w[5]

\* H23 at the new positions and the old momenta of a verlet call.
VerletD ==
    H23(<<vl.ret[1], vl.vec_x0[2], vl.ret[3], vl.vec_x0[4], vl.vec_x0[5],
          vl.vec_x0[6]>>, vl.h, vl.k1, vl.k2, vl.beta, vl.g_inv)

\* C23: one verlet step is the symplectic-Euler step generated by H23.  With
\* D = H23 at the new positions (x1, y1) and the old momenta (px, py, ps):
\* x1 = x + step*D[0], y1 = y + step*D[2], sigma1 = sigma + step*D[4],
\* px1 = px + step*D[1], py1 = py + step*D[3], ps is unchanged and D[5] = 0.
C23_SymplecticEuler ==
    (vl.called /\ vl.func = "verlet") =>
        \A D \in {VerletD} :
            /\ vl.ret[1] = vl.vec_x0[1] ++ (vl.step ** D[1])
            /\ vl.ret[3] = vl.vec_x0[3] ++ (vl.step ** D[3])
            /\ vl.ret[5] = vl.vec_x0[5] ++ (vl.step ** D[5])
            /\ vl.ret[2] = vl.vec_x0[2] ++ (vl.step ** D[2])
            /\ vl.ret[4] = vl.vec_x0[4] ++ (vl.step ** D[4])
            /\ vl.ret[6] = vl.vec_x0[6]
            /\ D[6] = Zero

\* verlet has returned finite coordinates for a moving, displaced particle
\* in a magnet with h, k1 and k2.
C23_Witness ==
    /\ vl.called /\ vl.func = "verlet"
    /\ ~IsZero(vl.h) /\ ~IsZero(vl.k1) /\ ~IsZero(vl.k2)
    /\ \A i \in {1, 2, 4, 6} : ~IsZero(vl.vec_x0[i])
    /\ Finite(vl.ret) /\ Finite(VerletD)
    /\ vl.ret[1] # vl.vec_x0[1] /\ vl.ret[2] # vl.vec_x0[2]
    /\ vl.ret[5] # vl.vec_x0[5]

----------------------------------------------------------------------------
(* The Runge-Kutta step of rk_track_in_field.                              *)

\* The moments increment of the slope sl in the field sampled at P.
MomentsAt(c, sl, P) ==
    LET B == mag_field(c.field, P[1], P[2], P[3])
    IN  moments(sl[1], sl[2], B[1], B[2], B[3], c.dzk)

\* The classical fourth-order Runge-Kutta step from the sample s: the four
\* sample points in order, and the position and slope it advances to.
ClassicalRK4(s, c) ==
    LET dz  == c.dz
        P1  == <<s.X, s.Y, s.Z>>
        m1  == MomentsAt(c, <<s.bx, s.by>>, P1)
        kx1 == s.bx ** dz
        ky1 == s.by ** dz
        sl2 == <<s.bx ++ (Rat(1, 2) ** m1[1]), s.by ++ (Rat(1, 2) ** m1[2])>>
        P2  == <<s.X ++ (kx1 // Num(2)), s.Y ++ (ky1 // Num(2)),
                 s.Z ++ (dz // Num(2))>>
        m2  == MomentsAt(c, sl2, P2)
        kx2 == sl2[1] ** dz
        ky2 == sl2[2] ** dz
        sl3 == <<s.bx ++ (Rat(1, 2) ** m2[1]), s.by ++ (Rat(1, 2) ** m2[2])>>
        P3  == <<s.X ++ (kx2 // Num(2)), s.Y ++ (ky2 // Num(2)),
                 s.Z ++ (dz // Num(2))>>
        m3  == MomentsAt(c, sl3, P3)
        kx3 == sl3[1] ** dz
        ky3 == sl3[2] ** dz
        sl4 == <<s.bx ++ m3[1], s.by ++ m3[2]>>
        P4  == <<s.X ++ kx3, s.Y ++ ky3, s.Z ++ dz>>
        m4  == MomentsAt(c, sl4, P4)
        kx4 == sl4[1] ** dz
        ky4 == sl4[2] ** dz
    IN  [points |-> <<P1, P2, P3, P4>>,
         X  |-> s.X ++ ((((kx1 ++ (Num(2) ** kx2)) ++ (Num(2) ** kx3)) ++ kx4)
                           // Num(6)),
         Y  |-> s.Y ++ ((((ky1 ++ (Num(2) ** ky2)) ++ (Num(2) ** ky3)) ++ ky4)
                           // Num(6)),
         bx |-> s.bx ++ ((((m1[1] ++ (Num(2) ** m2[1])) ++ (Num(2) ** m3[1]))
                            ++ m4[1]) // Num(6)),
         by |-> s.by ++ ((((m1[2] ++ (Num(2) ** m2[2])) ++ (Num(2) ** m3[2]))
                            ++ m4[2]) // Num(6)),
         Z  |-> s.Z ++ dz]

\* C24: each longitudinal step of rk_track_in_field is the classical RK4
\* step.  For every pass i and particle p the field is sampled four times,
\* in order at (X, Y, Z), (X + kx1/2, Y + ky1/2, Z + dz/2),
\* (X + kx2/2, Y + ky2/2, Z + dz/2), (X + kx3, Y + ky3, Z + dz), the stage
\* slopes being the step-start slope plus 1/2, 1/2 and 1 times the previous
\* stage's moments, and sample i + 1 is sample i advanced by
\* (k1 + 2*k2 + 2*k3 + k4)/6 in position and in slope.
C24_ClassicalRK4 ==
    rk.pc \in {"loop", "done"} =>
        \A i \in 1 .. rk.i, p \in DOMAIN rk.u[0] :
            \A s \in {rk_sample(rk.u, i - 1, p)} :
            \A r \in {ClassicalRK4(s, rk)} :
                /\ rk_track_step(s, rk).calls = r.points
                /\ rk_sample(rk.u, i, p)
                      = [X |-> r.X, bx |-> r.bx, Y |-> r.Y, by |-> r.by, Z |-> r.Z]

\* A step has been taken in a field that deflects the particle: the slope
\* and the position have changed, every coordinate is finite and the stages
\* sampled the field at different points.
C24_Witness ==
    /\ rk.pc = "done" /\ rk.i >= 1 /\ rk.field \in {"dipole", "fringe"}
    /\ \E p \in DOMAIN rk.u[0] :
          LET s0 == rk_sample(rk.u, 0, p)
              s1 == rk_sample(rk.u, 1, p)
              r  == ClassicalRK4(s0, rk)
          IN  /\ s1.bx # s0.bx /\ s1.X # s0.X
              /\ \A f \in {"X", "bx", "Y", "by", "Z"} : s1[f] # NonFinite
              /\ r.points[3] # r.points[2] /\ r.points[4] # r.points[3]

----------------------------------------------------------------------------
(* The right-hand side of the adaptive solver and moments.                 *)

\* The step sizes dz the increments of moments are compared at.
DzValues == {One, Rat(1, 2), Num(2)}

\* C25: the adaptive-solver oracle computes the same physics as the RK
\* tracker: for every particle, slope (bx, by), field (Bx, By, Bz) and
\* energy, the slope derivatives (mx, my) that func returns, times dz, are
\* the increments moments(bx, by, Bx, By, Bz, dz*k) returns, and the
\* position derivatives are (bx, by).
C25_SamePhysics ==
    sc.called =>
        \A p \in 1 .. (Len(sc.y) \div 4), dz \in DzValues :
            LET n  == Len(sc.y) \div 4
                bx == sc.y[n + p]
                by == sc.y[3 * n + p]
                B  == mag_field(sc.fields, sc.y[p], sc.y[2 * n + p], sc.z)
                k  == speed_of_light // ((m_e_eV ** One) ** (sc.energy // m_e_GeV))
                m  == moments(bx, by, B[1], B[2], B[3], dz ** k)
            IN  /\ sc.ret[n + p] ** dz = m[1]
                /\ sc.ret[3 * n + p] ** dz = m[2]
                /\ sc.ret[p] = bx
                /\ sc.ret[2 * n + p] = by

\* func has been called for two particles with slopes in both planes, in a
\* field with three non-zero components, and returned non-zero finite
\* slope derivatives.
C25_Witness ==
    /\ sc.called /\ Len(sc.y) = 8 /\ sc.fields = "skew"
    /\ \E p \in 1 .. 2 :
          /\ ~IsZero(sc.y[2 + p]) /\ ~IsZero(sc.y[6 + p])
          /\ \A j \in {1, 2, 3} :
                ~IsZero(mag_field(sc.fields, sc.y[p], sc.y[4 + p], sc.z)[j])
          /\ ~IsZero(sc.ret[2 + p]) /\ ~IsZero(sc.ret[6 + p])
          /\ sc.ret[2 + p] # NonFinite /\ sc.ret[6 + p] # NonFinite

----------------------------------------------------------------------------
(* The native stepping paths against rk_track_in_field.                    *)

\* The undulator field of a native call as the mag_field of
\* rk_track_in_field.
UndulatorField(B0) == IF B0 = Zero THEN "zero" ELSE "undulator"

\* The (X, bx, Y, by) that one step of rk_track_in_field gives the sample
\* s = (X, bx, Y, by, Z) of the particle y0, tracked over l in N samples at
\* the given energy through the undulator field of peak B0.
RkStepOf(y0, l, N, energy, B0, s) ==
    Only({ SubSeq(rk_track_step([X |-> s[1], bx |-> s[2], Y |-> s[3],
                                 by |-> s[4], Z |-> s[5]],
                                [dz |-> c.dz, dzk |-> c.dzk,
                                 dGamma2 |-> c.dGamma2,
                                 field |-> UndulatorField(B0)]).next, 1, 4)
           : c \in {rk_track_init(y0, l, N, energy)} })

RECURSIVE RkStepsOf(_, _, _, _, _, _)
\* The same after i steps from the first sample of y0.
RkStepsOf(y0, l, N, energy, B0, i) ==
    IF i = 0 THEN SubSeq(y0, 1, 4)
    ELSE RkStepOf(y0, l, N, energy, B0,
                  RkStepsOf(y0, l, N, energy, B0, i - 1)
                      \o <<Num(i - 1) ** (l // Num(N - 1))>>)

\* The native paths step as rk_track_in_field does: every sample after the
\* first that track_und_weave returns is the step of rk_track_in_field from
\* the sample before, ...
UwStepsAsRk ==
    uw.called =>
        \A i \in 1 .. (Len(uw.z) - 1) :
            SubSeq(uw.u, 6 * i + 1, 6 * i + 4)
                = RkStepOf(uw.y0, uw.z[Len(uw.z)] -- uw.z[1], Len(uw.z),
                           uw.energy, uw.c.B0,
                           SubSeq(uw.u, 6 * (i - 1) + 1, 6 * (i - 1) + 5))

\* ... and every particle that track_und_weave_openmp returns is its
\* particle after N - 1 steps of rk_track_in_field.
TwStepsAsRk ==
    tw.pc = "done" =>
        \A n \in DOMAIN tw.th :
            SubSeq(Particle(tw.ret, n), 1, 4)
                = RkStepsOf(Particle(tw.u0, n), tw.c.dz ** Num(tw.c.N - 1),
                            tw.c.N, tw.c.gamma ** m_e_GeV, tw.c.B0,
                            tw.c.N - 1)

\* C26: track_und_weave and track_und_weave_openmp apply the per-step
\* update of position and slope that rk_track_in_field applies to the same
\* particle with the same step, beam energy and undulator field, whatever
\* the particle's momentum deviation (coordinate 5).
C26_NativeStepsAsRk == UwStepsAsRk /\ TwStepsAsRk

----------------------------------------------------------------------------
(* Termination of sym_map.                                                 *)

\* A pass of the loop can be taken: ENABLED <<SymMapStep>>_vars, which is
\* the guard of SymMapStep since a pass increments i.
CanStep == sm.pc = "loop" /\ sm.i < sm.n - 1

\* sym_map's loop is a for loop over xrange(len(z_array) - 1) in one thread
\* of control: a pass that can be taken is taken, and the return follows
\* the last pass.  That is weak fairness of SymMapStep and of SymMapReturn;
\* the first is written out with CanStep for its ENABLED.
FairSpec ==
    /\ Spec
    /\ ([]<>~CanStep \/ []<><<SymMapStep>>_vars)
    /\ WF_vars(SymMapReturn)

\* The number of passes and their size, for a segment of length z # 0:
\* n - 1 = int(z/step0) >= 1 passes, step0 the policy step after clamping,
\* each of size z/(n - 1), so that the sizes add up to z; the passes taken
\* never exceed n - 1 and are n - 1 at the return.  For z = 0 no pass is
\* taken and X is returned as it was.
SegmentSteps ==
    /\ (sm.pc \in {"loop", "done"} /\ ~IsZero(sm.z)) =>
          /\ ~IsZero(sm.step0)
          /\ sm.n - 1 = IntOf(sm.z // sm.step0)
          /\ sm.n - 1 >= 1
          /\ sm.step = sm.z // Num(sm.n - 1)
          /\ Num(sm.n - 1) ** sm.step = sm.z
          /\ sm.i <= sm.n - 1
          /\ sm.pc = "done" => sm.iterations = sm.n - 1
    /\ (sm.pc \in {"loop", "done"} /\ IsZero(sm.z)) =>
          /\ sm.pc = "done"
          /\ sm.iterations = 0
          /\ sm.ret = sm.X0

\* C27: for z # 0 sym_map terminates after exactly n - 1 = int(z/step0) >= 1
\* passes of its loop, all of size z/(n - 1), which add up to z; for z = 0
\* it takes no pass and returns X unchanged.
C27_Terminates ==
    /\ []SegmentSteps
    /\ (sm.pc = "loop") ~> (sm.pc = "done")

C27_Witness ==
    /\ sm.pc = "done"
    /\ sm.z = Num(16)
    /\ sm.step0 = step_default
    /\ sm.iterations = 3
    /\ sm.step = Rat(16, 3)

----------------------------------------------------------------------------
(* The frame of sym_map.                                                   *)

\* C28: sym_map never changes the momentum deviation of a particle: during
\* the loop and at the return, after any number of passes and for every
\* (z, h, k1, k2, energy), X[5::6] holds its input values, and so does the
\* ps the passes read.
C28_MomentumDeviationKept ==
    /\ sm.pc \in {"loop", "done"} => Slice(sm.X, 5) = Slice(sm.X0, 5)
    /\ sm.pc = "loop" => sm.ps = Slice(sm.X0, 5)
    /\ sm.pc = "done" => Slice(sm.ret, 5) = Slice(sm.X0, 5)

C28_Witness ==
    /\ sm.pc = "done" /\ sm.iterations >= 1
    /\ ~IsZero(sm.h) /\ ~IsZero(sm.k1) /\ ~IsZero(sm.k2)
    /\ \A j \in DOMAIN sm.ret : IsFinite(sm.ret[j])
    /\ \E p \in 1 .. (Len(sm.X0) \div 6) :
          /\ ~IsZero(Particle(sm.X0, p)[6])
          /\ SubSeq(Particle(sm.ret, p), 1, 5) # SubSeq(Particle(sm.X0, p), 1, 5)
          /\ Particle(sm.ret, p)[5] # Particle(sm.ret, p)[6]

----------------------------------------------------------------------------
(* SaveOptParams.save.                                                     *)

\* A save call has been made on the object.
Saved == so.called /\ so.saves >= 1

\* C29: for any sequence of save calls, send_to_db is invoked only when
\* data holds exactly two snapshots, the first saved with flag "start" and
\* the second with another flag; after a non-start save data is empty, and
\* after a "start" save data holds exactly the snapshot of that call.
C29_PairedSaves ==
    Saved =>
        /\ \A k \in DOMAIN so.sent :
              /\ Len(so.sent[k]) = 2
              /\ so.sent[k][1].flag = "start"
              /\ so.sent[k][2].flag # "start"
        /\ so.flag # "start" => so.data = <<>>
        /\ so.flag = "start"
              => so.data = <<[flag |-> "start", timestamp |-> so.time]>>

----------------------------------------------------------------------------
(* Definite assignment of the integrals of t_nnn.                          *)

\* The integrals a returned call assigned: before the case blocks, and in
\* the branch each of the three blocks took.
Assigned ==
    t_nnn_basis_names \cup t_nnn_kx_names(tn.kxform)
        \cup t_nnn_cross_names(tn.cross) \cup t_nnn_tail_names(tn.tail)

\* The number of assignments of the integral n in a returned call.
Assignments(n) ==
    Cardinality({k \in 1 .. 4 :
        n \in <<t_nnn_basis_names, t_nnn_kx_names(tn.kxform),
                t_nnn_cross_names(tn.cross), t_nnn_tail_names(tn.tail)>>[k]})

\* The integrals that the case blocks assign: I116 .. I56, I144 .. I423 and
\* I336 .. I544.
CaseIntegrals == t_nnn_terms_names \ t_nnn_basis_names

\* The fields of a record that hold integrals.
IntegralsOf(r) == (DOMAIN r) \ {"form", "divisors"}

\* C30: in each of the four degeneracy cases of t_nnn every integral that
\* the second-order terms read has been assigned, by exactly one branch,
\* before the terms are formed; the names listed per branch are those the
\* branches taken by the call do compute.
C30_IntegralsAssigned ==
    tn.called =>
        /\ \A n \in CaseIntegrals : Assignments(n) = 1
        /\ t_nnn_terms_names \subseteq Assigned
        /\ \A b \in {t_nnn_basis(tn.L, tn.h, tn.k1)} :
           \A a \in {t_nnn_kx(b)}, c \in {t_nnn_cross(b)} :
              /\ t_nnn_basis_names \subseteq DOMAIN b
              /\ IntegralsOf(a) = t_nnn_kx_names(tn.kxform)
              /\ IntegralsOf(c) = t_nnn_cross_names(tn.cross)
              /\ IntegralsOf(t_nnn_tail(b, c)) = t_nnn_tail_names(tn.tail)

\* A call in the case (kx = 0, ky = 0), which takes the polynomial branch of
\* every block, with a non-zero second-order term.
C30_Witness ==
    /\ tn.called
    /\ DegeneracyCase(tn.h, tn.k1) = <<FALSE, FALSE>>
    /\ tn.kxform = "poly" /\ tn.cross = "poly" /\ tn.tail = "poly"
    /\ \E t \in DOMAIN tn.T : IsFinite(tn.T[t]) /\ ~IsZero(tn.T[t])

============================================================================
